---- MODULE Spec2Model ----
(***************************************************************************)
(* LZH/LHA archive codec: the writer LZHEncoder                            *)
(* (src/src/handlers/lzh/encoder.ts) and the reader LZHDecoder             *)
(* (src/unnamed/part_002).                                                 *)
(*                                                                         *)
(* Buffers (Uint8Array) are sequences of bytes 0..255; the code's 0-based  *)
(* index i is element i+1.  Strings are sequences of code points.  Numbers *)
(* that pass through JavaScript's bitwise operators are signed 32-bit      *)
(* integers, as in the language; the operators below compute them without  *)
(* leaving that range.  A test such as acc \notin Int in a loop is never    *)
(* true: it makes the model checker evaluate the accumulator at each       *)
(* iteration instead of at the end.                                        *)
(***************************************************************************)
EXTENDS Integers, Sequences, FiniteSets, TLC

VARIABLES
    pc,          \* position of the running call
    createFiles, \* LZHEncoder.create: the parameter files
    fileIdx,     \* LZHEncoder.create: files already written by the for loop
    output,      \* LZHEncoder.output: the chunks pushed so far
    archive,     \* the byte buffer handed from the writer to the reader
    data,        \* LZHDecoder.data
    offset,      \* LZHDecoder.offset
    files,       \* LZHDecoder.extractAll: the local list files
    warnings,    \* console.warn calls made by the reader, in order
    crafted,     \* the hand-built header appended to the archive, if any
    tampered,    \* the header byte changed after create, if any
    earlier,     \* what the earlier calls of create on this instance returned
    timestamp,   \* a Date given to dateToDosTime
    dosTime,     \* the {date, time} pair dateToDosTime returned
    decodedDate, \* the Date dosDateTimeToDate returned
    crcInput,    \* a buffer given to calculateCRC16
    crcValue,    \* the value calculateCRC16 returned
    lzMethod,    \* which of the two LZSS routines is called
    lzTokens,    \* the literal and match tokens a compressed stream was built from
    lzCompressed, \* a buffer given to decompressLH1 or decompressLH5
    lzSize,      \* the originalSize given with it
    lzOutput,    \* the buffer the routine returned
    lzState      \* the local variables of the LZSS routine that is running

vars == << pc, createFiles, fileIdx, output, archive, data, offset, files,
           warnings, crafted, tampered, earlier, timestamp, dosTime, decodedDate,
           crcInput, crcValue, lzMethod, lzTokens, lzCompressed, lzSize, lzOutput,
           lzState >>

encoderVars == << createFiles, fileIdx, output >>
decoderVars == << data, offset, files, warnings >>
harnessVars == << crafted, tampered, earlier >>
dateVars == << timestamp, dosTime, decodedDate >>
crcVars == << crcInput, crcValue >>
lzssVars == << lzMethod, lzTokens, lzCompressed, lzSize, lzOutput, lzState >>

(***************************************************************************)
(* JavaScript numbers.                                                     *)
(***************************************************************************)

\* 2^31, the weight of the sign bit, is not itself a signed 32-bit value.
MinInt32 == -2147483647 - 1

\* The value JavaScript gives an out-of-range typed-array read.
Undefined == -1

\* The low 31 bits of a signed 32-bit value.
Low31(x) == IF x < 0 THEN (x + 2147483647) + 1 ELSE x

FromBits(negative, low31) == IF negative THEN (low31 - 2147483647) - 1 ELSE low31

\* ToInt32 of a value read from a buffer: undefined converts to 0.
ToInt32(x) == IF x = Undefined THEN 0 ELSE x

RECURSIVE NatAnd(_, _)
NatAnd(a, b) ==
    IF a = 0 \/ b = 0 THEN 0
    ELSE (a % 2) * (b % 2) + 2 * NatAnd(a \div 2, b \div 2)

RECURSIVE NatOr(_, _)
NatOr(a, b) ==
    IF a = 0 THEN b
    ELSE IF b = 0 THEN a
    ELSE (IF a % 2 = 1 \/ b % 2 = 1 THEN 1 ELSE 0) + 2 * NatOr(a \div 2, b \div 2)

RECURSIVE NatXor(_, _)
NatXor(a, b) ==
    IF a = 0 THEN b
    ELSE IF b = 0 THEN a
    ELSE (IF a % 2 # b % 2 THEN 1 ELSE 0) + 2 * NatXor(a \div 2, b \div 2)

\* a & b on signed 32-bit values
JsAnd(a, b) == FromBits(a < 0 /\ b < 0, NatAnd(Low31(a), Low31(b)))

\* a | b
JsOr(a, b) == FromBits(a < 0 \/ b < 0, NatOr(Low31(a), Low31(b)))

\* a ^ b
JsXor(a, b) == FromBits((a < 0) # (b < 0), NatXor(Low31(a), Low31(b)))

\* a << n for 0 <= n <= 31: the bits above bit 31 are dropped, bit 31 is the sign
JsShl(a, n) ==
    LET kept == IF n = 1 THEN Low31(a) ELSE a % (2 ^ (32 - n))
        top == kept \div (2 ^ (31 - n))
        rest == kept % (2 ^ (31 - n))
    IN  IF n = 0 THEN a
        ELSE FromBits(top = 1, IF rest = 0 THEN 0 ELSE rest * (2 ^ n))

\* a >> n (sign-propagating)
JsSar(a, n) == a \div (2 ^ n)

Max(a, b) == IF a >= b THEN a ELSE b
Min(a, b) == IF a <= b THEN a ELSE b

Byte == 0 .. 255

(***************************************************************************)
(* Checksum module (encoder.ts).                                           *)
(***************************************************************************)

\* 0x1021
CRCPolynomial == 4129

\* mutant: tests bit 14 as the top bit
CRCShift_Bit14(crc) ==
    IF JsAnd(crc, 16384) # 0
    THEN JsXor(JsShl(crc, 1), CRCPolynomial)
    ELSE JsShl(crc, 1)
\* encoder.ts 159-163: one iteration of the inner loop
CRCShift(crc) ==
    IF JsAnd(crc, 32768) # 0
    THEN JsXor(JsShl(crc, 1), CRCPolynomial)
    ELSE JsShl(crc, 1)

\* encoder.ts 158-164: for (let j = 0; j < 8; j++)
RECURSIVE CRCShifts(_, _)
CRCShifts(crc, j) ==
    IF j = 8 \/ crc \notin Int THEN crc ELSE CRCShifts(CRCShift(crc), j + 1)

\* encoder.ts 156-165: for (let i = 0; i < data.length; i++)
RECURSIVE CRCLoop(_, _, _)
CRCLoop(bytes, i, crc) ==
    IF i >= Len(bytes) \/ crc \notin Int THEN crc
    ELSE CRCLoop(bytes, i + 1, CRCShifts(JsXor(crc, JsShl(bytes[i + 1], 8)), 0))

\* encoder.ts 153-168; the accumulator is masked once, at the end
calculateCRC16(bytes) == JsAnd(CRCLoop(bytes, 0, 0), 65535)

\* header[lo] + ... + header[hi - 1]; the range is halved so that a long
\* header does not nest one evaluation per byte
RECURSIVE SumRange(_, _, _)
SumRange(header, lo, hi) ==
    IF lo >= hi THEN 0
    ELSE IF lo + 1 = hi THEN header[lo + 1]
    ELSE LET mid == (lo + hi) \div 2
         IN  SumRange(header, lo, mid) + SumRange(header, mid, hi)

\* mutant: the sum leaves out the last header byte
calculateHeaderChecksum_ShortByOne(header, start, length) ==
    JsAnd(SumRange(header, start, start + length - 1), 255)
\* encoder.ts 145-151
calculateHeaderChecksum(header, start, length) ==
    JsAnd(SumRange(header, start, start + length), 255)

(***************************************************************************)
(* Dates.  A Date is the record of its local calendar fields, month        *)
(* 0-based as getMonth returns it; the reader and the writer both use the  *)
(* local-time accessors and constructor, in a zone without clock changes.  *)
(***************************************************************************)

IsLeap(y) == (y % 4 = 0 /\ y % 100 # 0) \/ y % 400 = 0

\* month is 0-based
DaysInMonth(y, m) ==
    IF m = 1 THEN (IF IsLeap(y) THEN 29 ELSE 28)
    ELSE IF m \in {3, 5, 8, 10} THEN 30 ELSE 31

NoDate == [year |-> 0, month |-> 0, day |-> 0, hour |-> 0, minute |-> 0, second |-> 0]

\* new Date(year, month, day, hour, minute, second): fields out of range carry
\* into the next larger field (month -1 is December of the year before, day 0
\* the last day of the month before, second 60 the next minute).
NewDate(year, month, day, hour, minute, second) ==
    LET s == second % 60
        mi0 == minute + (second \div 60)
        mi == mi0 % 60
        h0 == hour + (mi0 \div 60)
        h == h0 % 24
        d0 == day + (h0 \div 24)
        y1 == year + (month \div 12)
        m1 == month % 12
        \* day 0: the last day of the month before
        pm == (m1 + 11) % 12
        py == IF m1 = 0 THEN y1 - 1 ELSE y1
        \* day beyond the month's end: into the month after
        nm == (m1 + 1) % 12
        ny == IF m1 = 11 THEN y1 + 1 ELSE y1
    IN  IF d0 < 1
        THEN [year |-> py, month |-> pm, day |-> DaysInMonth(py, pm) + d0,
              hour |-> h, minute |-> mi, second |-> s]
        ELSE IF d0 > DaysInMonth(y1, m1)
        THEN [year |-> ny, month |-> nm, day |-> d0 - DaysInMonth(y1, m1),
              hour |-> h, minute |-> mi, second |-> s]
        ELSE [year |-> y1, month |-> m1, day |-> d0,
              hour |-> h, minute |-> mi, second |-> s]

\* mutant: the month is packed 0-based
\* mutant: the year is packed as it is given
dateToDosTime_YearUnclamped(date) ==
    LET second == date.second \div 2
    IN  [date |-> JsOr(JsOr(JsShl(date.year - 1980, 9), JsShl(date.month + 1, 5)), date.day),
         time |-> JsOr(JsOr(JsShl(date.hour, 11), JsShl(date.minute, 5)), second)]
\* mutant: the month is packed as getMonth returns it
dateToDosTime_MonthZeroBased(date) ==
    LET year == Max(1980, Min(2107, date.year))
        second == date.second \div 2
    IN  [date |-> JsOr(JsOr(JsShl(year - 1980, 9), JsShl(date.month, 5)), date.day),
         time |-> JsOr(JsOr(JsShl(date.hour, 11), JsShl(date.minute, 5)), second)]
\* encoder.ts 131-143
dateToDosTime(date) ==
    LET year == Max(1980, Min(2107, date.year))
        month == date.month + 1
        day == date.day
        hour == date.hour
        minute == date.minute
        second == date.second \div 2
    IN  [date |-> JsOr(JsOr(JsShl(year - 1980, 9), JsShl(month, 5)), day),
         time |-> JsOr(JsOr(JsShl(hour, 11), JsShl(minute, 5)), second)]

\* part_002 213-222
dosDateTimeToDate(dosDate, dosTimeWord) ==
    LET year == 1980 + JsAnd(JsSar(dosDate, 9), 127)
        month == JsAnd(JsSar(dosDate, 5), 15) - 1
        day == JsAnd(dosDate, 31)
        hour == JsAnd(JsSar(dosTimeWord, 11), 31)
        minute == JsAnd(JsSar(dosTimeWord, 5), 63)
        second == JsAnd(dosTimeWord, 31) * 2
    IN  NewDate(year, month, day, hour, minute, second)

(***************************************************************************)
(* Text.                                                                   *)
(***************************************************************************)

ReplacementChar == 65533

\* the UTF-8 bytes of one code point; TextEncoder writes U+FFFD for a lone
\* surrogate
Utf8Bytes(cp) ==
    IF cp < 128 THEN << cp >>
    ELSE IF cp < 2048 THEN << 192 + (cp \div 64), 128 + (cp % 64) >>
    ELSE IF cp \in 55296 .. 57343 THEN << 239, 191, 189 >>
    ELSE IF cp < 65536
    THEN << 224 + (cp \div 4096), 128 + ((cp \div 64) % 64), 128 + (cp % 64) >>
    ELSE << 240 + (cp \div 262144), 128 + ((cp \div 4096) % 64),
            128 + ((cp \div 64) % 64), 128 + (cp % 64) >>

\* the bytes of str[lo .. hi], the two halves encoded one after the other
RECURSIVE EncodeRange(_, _, _)
EncodeRange(str, lo, hi) ==
    IF lo > hi THEN <<>>
    ELSE IF lo = hi THEN Utf8Bytes(str[lo])
    ELSE LET mid == (lo + hi) \div 2
         IN  EncodeRange(str, lo, mid) \o EncodeRange(str, mid + 1, hi)

\* new TextEncoder().encode(str)
TextEncode(str) == EncodeRange(str, 1, Len(str))

(***************************************************************************)
(* Typed arrays.                                                           *)
(***************************************************************************)

\* new Uint8Array(n)
Zeros(n) == [i \in 1 .. n |-> 0]

\* buffer[offset] = value: the value is stored modulo 256
SetByte(buffer, off, value) ==
    IF off + 1 \in 1 .. Len(buffer) THEN [buffer EXCEPT ![off + 1] = value % 256]
    ELSE buffer

\* buffer.set(bytes, offset)
SetBytes(buffer, off, bytes) ==
    [i \in 1 .. Len(buffer) |->
        IF i > off /\ i <= off + Len(bytes) THEN bytes[i - off] ELSE buffer[i]]

\* array.slice(start, end): a negative bound counts from the end, and both
\* are clamped to the array
JsSlice(array, start, end) ==
    LET len == Len(array)
        from == IF start < 0 THEN Max(len + start, 0) ELSE Min(start, len)
        to == IF end < 0 THEN Max(len + end, 0) ELSE Min(end, len)
    IN  SubSeq(array, from + 1, to)

(***************************************************************************)
(* LZHEncoder (encoder.ts).                                                *)
(***************************************************************************)

\* encoder.ts 119-122
writeWord(buffer, off, value) ==
    SetByte(SetByte(buffer, off, JsAnd(value, 255)), off + 1, JsAnd(JsSar(value, 8), 255))

\* mutant: the four bytes are stored most significant first
writeDWord_BigEndian(buffer, off, value) ==
    LET b0 == SetByte(buffer, off, JsAnd(JsSar(value, 24), 255))
        b1 == SetByte(b0, off + 1, JsAnd(JsSar(value, 16), 255))
        b2 == SetByte(b1, off + 2, JsAnd(JsSar(value, 8), 255))
    IN  SetByte(b2, off + 3, JsAnd(value, 255))

\* encoder.ts 124-129
writeDWord(buffer, off, value) ==
    LET b0 == SetByte(buffer, off, JsAnd(value, 255))
        b1 == SetByte(b0, off + 1, JsAnd(JsSar(value, 8), 255))
        b2 == SetByte(b1, off + 2, JsAnd(JsSar(value, 16), 255))
    IN  SetByte(b2, off + 3, JsAnd(JsSar(value, 24), 255))

\* "-lh0-"
StoreMethod == << 45, 108, 104, 48, 45 >>

\* encoder.ts 50
StoredNameLength(filenameBytes) == Min(Len(filenameBytes), 255)

\* encoder.ts 55
BaseHeaderSize(filenameLength) == 2 + 5 + 4 + 4 + 2 + 2 + 1 + 1 + 1 + filenameLength + 2

\* encoder.ts 40-113: the two chunks writeFileHeader pushes, the header and
\* the payload; now is the clock reading used when the file has no timestamp
writeFileHeader(file, now) ==
    LET stamp == IF file.timestamp = NoDate THEN now ELSE file.timestamp
        compressedData == file.data
        originalSize == Len(file.data)
        compressedSize == Len(compressedData)
        crc == calculateCRC16(file.data)
        filenameBytes == TextEncode(file.filename)
        filenameLength == StoredNameLength(filenameBytes)
        baseHeaderSize == BaseHeaderSize(filenameLength)
        headerSize == baseHeaderSize - 2
        dos == dateToDosTime(stamp)
        h0 == SetByte(Zeros(baseHeaderSize), 0, headerSize)
        checksumOffset == 1
        h1 == SetByte(h0, checksumOffset, 0)
        h2 == SetBytes(h1, 2, StoreMethod)
        h3 == writeDWord(h2, 7, compressedSize)
        h4 == writeDWord(h3, 11, originalSize)
        h5 == writeWord(h4, 15, dos.time)
        h6 == writeWord(h5, 17, dos.date)
        h7 == SetByte(h6, 19, 32)
        h8 == SetByte(h7, 20, 0)
        h9 == SetByte(h8, 21, filenameLength)
        h10 == SetBytes(h9, 22, JsSlice(filenameBytes, 0, filenameLength))
        h11 == writeWord(h10, 22 + filenameLength, crc)
        header == SetByte(h11, checksumOffset, calculateHeaderChecksum(h11, 2, headerSize))
    IN  << header, compressedData >>

\* mutant: no end marker is pushed
EndMarker_Missing == << >>
\* encoder.ts 26: new Uint8Array([0x00])
EndMarker == << 0 >>

\* encoder.ts 29-35: the chunks copied one after the other into one buffer
RECURSIVE Concatenate(_)
Concatenate(chunks) ==
    IF chunks = <<>> THEN <<>> ELSE Head(chunks) \o Concatenate(Tail(chunks))

\* the chunks the for loop of create pushes for files[from+1 ..]
RECURSIVE WrittenChunks(_, _, _)
WrittenChunks(fileList, from, now) ==
    IF from >= Len(fileList) THEN <<>>
    ELSE writeFileHeader(fileList[from + 1], now) \o WrittenChunks(fileList, from + 1, now)

\* encoder.ts 18-38: create as one call
Create(fileList, now) ==
    Concatenate(WrittenChunks(fileList, 0, now) \o << EndMarker >>)

(***************************************************************************)
(* Text read back.                                                         *)
(***************************************************************************)

IsContinuation(bytes, i, lower, upper) ==
    i <= Len(bytes) /\ bytes[i] >= lower /\ bytes[i] <= upper

\* one step of the UTF-8 decoder of TextDecoder('utf-8', {fatal: false}) at
\* byte i: the code point it yields and the byte it goes on at.  A malformed
\* or cut-off sequence yields U+FFFD and decoding goes on at the byte that
\* broke it.
Utf8Step(bytes, i) ==
    LET b == bytes[i]
        need == IF b < 128 THEN 0
                ELSE IF b >= 194 /\ b <= 223 THEN 1
                ELSE IF b >= 224 /\ b <= 239 THEN 2
                ELSE IF b >= 240 /\ b <= 244 THEN 3
                ELSE -1
        lower == IF b = 224 THEN 160 ELSE IF b = 240 THEN 144 ELSE 128
        upper == IF b = 237 THEN 159 ELSE IF b = 244 THEN 143 ELSE 191
        ok1 == IsContinuation(bytes, i + 1, lower, upper)
        ok2 == IsContinuation(bytes, i + 2, 128, 191)
        ok3 == IsContinuation(bytes, i + 3, 128, 191)
        c1 == bytes[i + 1] % 64
        c2 == bytes[i + 2] % 64
        c3 == bytes[i + 3] % 64
    IN  IF need = 0 THEN [cp |-> b, next |-> i + 1]
        ELSE IF need = -1 THEN [cp |-> ReplacementChar, next |-> i + 1]
        ELSE IF ~ok1 THEN [cp |-> ReplacementChar, next |-> i + 1]
        ELSE IF need = 1 THEN [cp |-> (b % 32) * 64 + c1, next |-> i + 2]
        ELSE IF ~ok2 THEN [cp |-> ReplacementChar, next |-> i + 2]
        ELSE IF need = 2 THEN [cp |-> (b % 16) * 4096 + c1 * 64 + c2, next |-> i + 3]
        ELSE IF ~ok3 THEN [cp |-> ReplacementChar, next |-> i + 3]
        ELSE [cp |-> (b % 8) * 262144 + c1 * 4096 + c2 * 64 + c3, next |-> i + 4]

\* the decoder run from byte i over the steps that start in lo .. hi (lo <= i):
\* the code points they yield and the byte the next step starts at.  The range
\* is halved so that a long name does not nest one evaluation per byte.
RECURSIVE DecodeRange(_, _, _, _)
DecodeRange(bytes, lo, hi, i) ==
    IF i > hi THEN [out |-> <<>>, next |-> i]
    ELSE IF lo = hi
    THEN LET step == Utf8Step(bytes, i) IN [out |-> << step.cp >>, next |-> step.next]
    ELSE LET mid == (lo + hi) \div 2
             left == DecodeRange(bytes, lo, mid, i)
             right == DecodeRange(bytes, mid + 1, hi, left.next)
         IN  [out |-> left.out \o right.out, next |-> right.next]

Utf8Decode(bytes) == DecodeRange(bytes, 1, Len(bytes), 1).out

\* decoder.decode(bytes): a leading byte order mark is dropped
TextDecode(bytes) ==
    LET str == Utf8Decode(bytes)
    IN  IF str # <<>> /\ Head(str) = 65279 THEN Tail(str) ELSE str

IsControl(c) == c <= 31 \/ c = 127

\* str.replace(/[\x00-\x1F\x7F]/g, '')
StripControl(str) == SelectSeq(str, LAMBDA c : ~IsControl(c))

\* what String.prototype.trim removes: white space and line terminators
IsWhiteSpace(c) ==
    \/ c \in {9, 10, 11, 12, 13, 32, 160, 5760, 8232, 8233, 8239, 8287, 12288, 65279}
    \/ (c >= 8192 /\ c <= 8202)

RECURSIVE TrimStart(_)
TrimStart(str) ==
    IF str # <<>> /\ IsWhiteSpace(Head(str)) THEN TrimStart(Tail(str)) ELSE str

RECURSIVE TrimEnd(_)
TrimEnd(str) ==
    IF str # <<>> /\ IsWhiteSpace(str[Len(str)])
    THEN TrimEnd(SubSeq(str, 1, Len(str) - 1))
    ELSE str

Trim(str) == TrimEnd(TrimStart(str))

StartsWith(str, prefix) ==
    Len(str) >= Len(prefix) /\ SubSeq(str, 1, Len(prefix)) = prefix

(***************************************************************************)
(* LZHDecoder (part_002): the cursor and the primitive readers.  A reader  *)
(* yields [throws, v, off]: whether it threw, the value read and the       *)
(* cursor it leaves.                                                       *)
(***************************************************************************)

\* NaN, which this.offset becomes once undefined has been added to it; no
\* cursor or length of a buffer shorter than 2^31 - 1 bytes has this value
NaN == 2147483647

\* a value read from the buffer used as a number
ToNumber(v) == IF v = Undefined THEN NaN ELSE v

\* a + b on numbers
JsAdd(a, b) == IF a = NaN \/ b = NaN THEN NaN ELSE a + b

\* a > b and a >= b are false when either side is NaN
JsGreater(a, b) == a # NaN /\ b # NaN /\ a > b
JsAtLeast(a, b) == a # NaN /\ b # NaN /\ a >= b
JsLess(a, b) == a # NaN /\ b # NaN /\ a < b

\* an index or bound given to slice: NaN counts as 0
ToIntegerOrZero(x) == IF x = NaN THEN 0 ELSE x

\* data[off]: undefined outside the buffer
ByteAt(buffer, off) ==
    IF off = NaN \/ off < 0 \/ off >= Len(buffer) THEN Undefined ELSE buffer[off + 1]

Threw(off) == [throws |-> TRUE, v |-> Undefined, off |-> off]
Read(v, off) == [throws |-> FALSE, v |-> v, off |-> off]

\* part_002 26-31
readByte(buffer, off) ==
    IF JsAtLeast(off, Len(buffer)) THEN Threw(off)
    ELSE Read(ByteAt(buffer, off), JsAdd(off, 1))

\* part_002 33-37
readWord(buffer, off) ==
    LET low == readByte(buffer, off)
        high == readByte(buffer, low.off)
    IN  IF low.throws THEN low
        ELSE IF high.throws THEN high
        ELSE Read(JsOr(ToInt32(low.v), JsShl(ToInt32(high.v), 8)), high.off)

\* part_002 39-43: low | (high << 16) is a signed 32-bit value
readDWord(buffer, off) ==
    LET low == readWord(buffer, off)
        high == readWord(buffer, low.off)
    IN  IF low.throws THEN low
        ELSE IF high.throws THEN high
        ELSE Read(JsOr(low.v, JsShl(high.v, 16)), high.off)

\* part_002 45-52; length is any number, negative and NaN included
readBytes(buffer, off, length) ==
    LET end == JsAdd(off, length)
    IN  IF JsGreater(end, Len(buffer)) THEN Threw(off)
        ELSE Read(JsSlice(buffer, ToIntegerOrZero(off), ToIntegerOrZero(end)), end)

\* part_002 57-63: the index of the first zero byte, or the length
FirstNul(bytes, length) ==
    LET nuls == {i \in 0 .. Len(bytes) - 1 : bytes[i + 1] = 0}
    IN  IF nuls = {} THEN length
        ELSE CHOOSE i \in nuls : \A j \in nuls : i <= j

\* part_002 54-71
readString(buffer, off, length) ==
    LET bytes == readBytes(buffer, off, length)
        actualLength == FirstNul(bytes.v, length)
        validBytes == JsSlice(bytes.v, 0, actualLength)
    IN  IF bytes.throws THEN bytes
        ELSE Read(StripControl(TextDecode(validBytes)), bytes.off)

(***************************************************************************)
(* LZHDecoder: the two LZSS routines.  A dictionary is the function from   *)
(* the indices written so far to their bytes; every other index still      *)
(* holds the 0 the array was created with.                                 *)
(***************************************************************************)

EmptyWindow == << >>

WindowRead(window, i) == IF i \in DOMAIN window THEN window[i] ELSE 0

WindowWrite(window, i, byte) == (i :> byte) @@ window

\* new Uint8Array(n) throws a RangeError for a negative length
AllocationThrows(n) == n < 0

\* mutant: the bits of a byte come most significant first
getBit_MsbFirst(compressed, st) ==
    IF st.bitCount = 0 /\ st.inPos >= Len(compressed)
    THEN [bit |-> 0, st |-> st]
    ELSE LET loaded == IF st.bitCount = 0
                       THEN [st EXCEPT !.bitBuffer = compressed[st.inPos + 1],
                                       !.inPos = st.inPos + 1,
                                       !.bitCount = 8]
                       ELSE st
         IN  [bit |-> loaded.bitBuffer \div 128,
              st |-> [loaded EXCEPT !.bitBuffer = (loaded.bitBuffer * 2) % 256,
                                    !.bitCount = loaded.bitCount - 1]]

\* part_002 236-246: getBit, on the state st of decompressLH1
getBit(compressed, st) ==
    IF st.bitCount = 0 /\ st.inPos >= Len(compressed)
    THEN [bit |-> 0, st |-> st]
    ELSE LET loaded == IF st.bitCount = 0
                       THEN [st EXCEPT !.bitBuffer = compressed[st.inPos + 1],
                                       !.inPos = st.inPos + 1,
                                       !.bitCount = 8]
                       ELSE st
         IN  [bit |-> JsAnd(loaded.bitBuffer, 1),
              st |-> [loaded EXCEPT !.bitBuffer = JsSar(loaded.bitBuffer, 1),
                                    !.bitCount = loaded.bitCount - 1]]

\* part_002 248-254: getBits(n), from iteration i with value so far
RECURSIVE getBitsFrom(_, _, _, _, _)
getBitsFrom(compressed, st, n, i, value) ==
    IF i >= n \/ value \notin Int THEN [value |-> value, st |-> st]
    ELSE LET g == getBit(compressed, st)
         IN  getBitsFrom(compressed, g.st, n, i + 1,
                         IF g.bit = 0 THEN value ELSE JsOr(value, JsShl(g.bit, i)))

getBits(compressed, st, n) == getBitsFrom(compressed, st, n, 0, 0)

\* part_002 260-262 and 270-272: one byte to the output and the dictionary
LH1Emit(st, byte) ==
    [st EXCEPT !.output = SetByte(st.output, st.outPos, byte),
               !.outPos = st.outPos + 1,
               !.dictionary = WindowWrite(st.dictionary, st.dictPos, byte),
               !.dictPos = JsAnd(st.dictPos + 1, 4095)]

\* mutant: the copy loop of a match does not stop when the output is full
RECURSIVE LH1Copy_Unbounded(_, _, _, _, _)
LH1Copy_Unbounded(st, position, length, originalSize, i) ==
    IF ~(i < length) THEN st
    ELSE LH1Copy_Unbounded(LH1Emit(st, WindowRead(st.dictionary, position)),
                           position, length, originalSize, i + 1)

\* part_002 268-273: the copy loop of a match, from iteration i
RECURSIVE LH1Copy(_, _, _, _, _)
LH1Copy(st, position, length, originalSize, i) ==
    IF ~(i < length /\ st.outPos < originalSize) THEN st
    ELSE LH1Copy(LH1Emit(st, WindowRead(st.dictionary, position)),
                 position, length, originalSize, i + 1)

\* part_002 257-274: one token
LH1Token(compressed, originalSize, st) ==
    LET flag == getBit(compressed, st)
        literal == getBits(compressed, flag.st, 8)
        position == getBits(compressed, flag.st, 12)
        length == getBits(compressed, position.st, 4)
    IN  IF flag.bit # 0
        THEN LH1Emit(literal.st, literal.value)
        ELSE LH1Copy(length.st, position.value, length.value + 3, originalSize, 0)

\* part_002 256-275: the while loop
RECURSIVE LH1Loop(_, _, _)
LH1Loop(compressed, originalSize, st) ==
    IF ~(st.outPos < originalSize /\ st.inPos < Len(compressed)) THEN st
    ELSE LH1Loop(compressed, originalSize, LH1Token(compressed, originalSize, st))

\* part_002 228-234
LH1Start(originalSize) ==
    [output |-> Zeros(originalSize), dictionary |-> EmptyWindow,
     outPos |-> 0, dictPos |-> 0, bitBuffer |-> 0, bitCount |-> 0, inPos |-> 0]

\* part_002 227-278
decompressLH1(compressed, originalSize) ==
    LH1Loop(compressed, originalSize, LH1Start(originalSize)).output

\* part_002 288
windowSize == 8192

\* mutant: the window write index is not brought back to 0 at the window's end
LH5Emit_NoWrap(st, byte) ==
    [st EXCEPT !.output = SetByte(st.output, st.outPos, byte),
               !.outPos = st.outPos + 1,
               !.window = WindowWrite(st.window, st.windowPos, byte),
               !.windowPos = st.windowPos + 1]

\* part_002 302-304 and 316-318: one byte to the output and the window
LH5Emit(st, byte) ==
    [st EXCEPT !.output = SetByte(st.output, st.outPos, byte),
               !.outPos = st.outPos + 1,
               !.window = WindowWrite(st.window, st.windowPos, byte),
               !.windowPos = (st.windowPos + 1) % windowSize]

\* mutant: every byte of a match is read from where the match began
RECURSIVE LH5Copy_FixedSource(_, _, _, _, _)
LH5Copy_FixedSource(st, off, length, originalSize, i) ==
    IF ~(i < length /\ st.outPos < originalSize) THEN st
    ELSE LET pos == (st.windowPos - i - off + windowSize) % windowSize
         IN  LH5Copy_FixedSource(LH5Emit(st, WindowRead(st.window, pos)), off, length,
                                 originalSize, i + 1)

\* part_002 313-319: the copy loop of a match, from iteration i
RECURSIVE LH5Copy(_, _, _, _, _)
LH5Copy(st, off, length, originalSize, i) ==
    IF ~(i < length /\ st.outPos < originalSize) THEN st
    ELSE LET pos == (st.windowPos - off + windowSize) % windowSize
         IN  LH5Copy(LH5Emit(st, WindowRead(st.window, pos)), off, length, originalSize, i + 1)

\* part_002 298-321: the for loop over the bits of one flag byte, from bit
RECURSIVE LH5Bits(_, _, _, _, _)
LH5Bits(compressed, originalSize, flag, bit, st) ==
    IF ~(bit < 8 /\ st.outPos < originalSize /\ st.inPos < Len(compressed)) THEN st
    ELSE IF JsAnd(flag, JsShl(1, bit)) # 0
    THEN LH5Bits(compressed, originalSize, flag, bit + 1,
                 LH5Emit([st EXCEPT !.inPos = st.inPos + 1], compressed[st.inPos + 1]))
    ELSE IF st.inPos + 1 >= Len(compressed) THEN st
    ELSE LET byte1 == compressed[st.inPos + 1]
             byte2 == compressed[st.inPos + 2]
             off == JsOr(JsShl(JsAnd(byte2, 240), 4), byte1)
             length == JsAnd(byte2, 15) + 3
         IN  LH5Bits(compressed, originalSize, flag, bit + 1,
                     LH5Copy([st EXCEPT !.inPos = st.inPos + 2], off, length, originalSize, 0))

\* mutant: a match with fewer than two bytes left does not leave the for loop
LH5Token_NoBreak(compressed, originalSize, st) ==
    IF JsAnd(st.flag, JsShl(1, st.bit)) # 0
    THEN [LH5Emit([st EXCEPT !.inPos = st.inPos + 1], compressed[st.inPos + 1])
            EXCEPT !.bit = st.bit + 1]
    ELSE IF st.inPos + 1 >= Len(compressed) THEN st
    ELSE LET byte1 == compressed[st.inPos + 1]
             byte2 == compressed[st.inPos + 2]
             off == JsOr(JsShl(JsAnd(byte2, 240), 4), byte1)
             length == JsAnd(byte2, 15) + 3
         IN  [LH5Copy([st EXCEPT !.inPos = st.inPos + 2], off, length, originalSize, 0)
                EXCEPT !.bit = st.bit + 1]

\* part_002 299-320: the body of the for loop once, on a state that also holds
\* the locals flag and bit and whether the for loop is running; break leaves it
LH5Token(compressed, originalSize, st) ==
    IF JsAnd(st.flag, JsShl(1, st.bit)) # 0
    THEN [LH5Emit([st EXCEPT !.inPos = st.inPos + 1], compressed[st.inPos + 1])
            EXCEPT !.bit = st.bit + 1]
    ELSE IF st.inPos + 1 >= Len(compressed) THEN [st EXCEPT !.inFor = FALSE]
    ELSE LET byte1 == compressed[st.inPos + 1]
             byte2 == compressed[st.inPos + 2]
             off == JsOr(JsShl(JsAnd(byte2, 240), 4), byte1)
             length == JsAnd(byte2, 15) + 3
         IN  [LH5Copy([st EXCEPT !.inPos = st.inPos + 2], off, length, originalSize, 0)
                EXCEPT !.bit = st.bit + 1]

\* part_002 295-322: the while loop
RECURSIVE LH5Loop(_, _, _)
LH5Loop(compressed, originalSize, st) ==
    IF ~(st.outPos < originalSize /\ st.inPos < Len(compressed)) THEN st
    ELSE LH5Loop(compressed, originalSize,
                 LH5Bits(compressed, originalSize, compressed[st.inPos + 1], 0,
                         [st EXCEPT !.inPos = st.inPos + 1]))

\* part_002 287-292
LH5Start(originalSize) ==
    [output |-> Zeros(originalSize), window |-> EmptyWindow,
     outPos |-> 0, windowPos |-> 0, inPos |-> 0]

\* part_002 284-325
decompressLH5(compressed, originalSize) ==
    LH5Loop(compressed, originalSize, LH5Start(originalSize)).output

(***************************************************************************)
(* LZHDecoder.readHeader.  It yields [kind, off, file, warn]: kind is      *)
(* "entry" (an LHAFile is returned), "null" or "throw"; off is the cursor  *)
(* it leaves and warn the console.warn calls it made.                      *)
(***************************************************************************)

\* "-lh", "-lz" and the method tags readHeader compares with
PrefixLh == << 45, 108, 104 >>
PrefixLz == << 45, 108, 122 >>
MethodLh0 == << 45, 108, 104, 48, 45 >>
MethodLh1 == << 45, 108, 104, 49, 45 >>
MethodLh4 == << 45, 108, 104, 52, 45 >>
MethodLh5 == << 45, 108, 104, 53, 45 >>
MethodLh6 == << 45, 108, 104, 54, 45 >>
MethodLh7 == << 45, 108, 104, 55, 45 >>
MethodLhd == << 45, 108, 104, 100, 45 >>

\* "unnamed"
Unnamed == << 117, 110, 110, 97, 109, 101, 100 >>

NoFile == [filename |-> <<>>, originalSize |-> 0, compressedSize |-> 0,
           timestamp |-> NoDate, crc |-> 0, method |-> <<>>, os |-> 0, data |-> <<>>]

ReturnNull(off, warn) == [kind |-> "null", off |-> off, file |-> NoFile, warn |-> warn]
Throws(off) == [kind |-> "throw", off |-> off, file |-> NoFile, warn |-> <<>>]
ReturnFile(off, file, warn) == [kind |-> "entry", off |-> off, file |-> file, warn |-> warn]

\* mutant: a zero size byte is not taken as the end of the archive
InvalidHeaderSize_ZeroAccepted(headerSize) ==
    headerSize # Undefined /\ headerSize > 128
\* part_002 99: headerSize === 0 || headerSize > 128
InvalidHeaderSize(headerSize) ==
    headerSize # Undefined /\ (headerSize = 0 \/ headerSize > 128)

\* mutant: every tag without a routine of its own is refused
UnknownMethod_NoPassThrough(method) ==
    method \notin {MethodLh0, MethodLh1, MethodLh4, MethodLh5, MethodLh6, MethodLh7,
                   MethodLhd}
\* part_002 110
UnknownMethod(method) ==
    ~StartsWith(method, PrefixLh) /\ ~StartsWith(method, PrefixLz) /\ method # MethodLhd

\* part_002 123; both sizes are the signed values readDWord returned
SuspiciousSizes(compressedSize, originalSize, length) ==
    compressedSize > length \/ originalSize > 100 * 1024 * 1024

\* mutant: the two bytes of the size word are not counted in the size
RECURSIVE SkipExtendedHeaders_SizeWordNotCounted(_, _)
SkipExtendedHeaders_SizeWordNotCounted(buffer, off) ==
    LET extSize == readWord(buffer, off)
        skipped == readBytes(buffer, extSize.off, extSize.v)
    IN  IF extSize.throws THEN extSize
        ELSE IF extSize.v = 0 THEN Read(0, extSize.off)
        ELSE IF skipped.throws THEN skipped
        ELSE SkipExtendedHeaders_SizeWordNotCounted(buffer, skipped.off)

\* part_002 157-161: the extended headers of a level-1 header
RECURSIVE SkipExtendedHeaders(_, _)
SkipExtendedHeaders(buffer, off) ==
    LET extSize == readWord(buffer, off)
        skipped == readBytes(buffer, extSize.off, extSize.v - 2)
    IN  IF extSize.throws THEN extSize
        ELSE IF extSize.v = 0 THEN Read(0, extSize.off)
        ELSE IF skipped.throws THEN skipped
        ELSE SkipExtendedHeaders(buffer, skipped.off)

\* part_002 164-167: the rest of a level-2 header
SkipLevel2Header(buffer, off, headerSize) ==
    LET totalHeaderSize == readWord(buffer, off)
    IN  IF totalHeaderSize.throws THEN totalHeaderSize
        ELSE IF JsGreater(totalHeaderSize.v, ToNumber(headerSize))
        THEN readBytes(buffer, totalHeaderSize.off, totalHeaderSize.v - headerSize - 2)
        ELSE Read(0, totalHeaderSize.off)

\* part_002 181-196: [throws, v, warn]
Decompress(method, compressedData, originalSize) ==
    IF method = MethodLh0
    THEN [throws |-> FALSE, v |-> compressedData, warn |-> <<>>]
    ELSE IF method = MethodLh1
    THEN IF AllocationThrows(originalSize)
         THEN [throws |-> TRUE, v |-> <<>>, warn |-> <<>>]
         ELSE [throws |-> FALSE, v |-> decompressLH1(compressedData, originalSize),
               warn |-> <<>>]
    ELSE IF method \in {MethodLh4, MethodLh5, MethodLh6, MethodLh7}
    THEN IF AllocationThrows(originalSize)
         THEN [throws |-> TRUE, v |-> <<>>, warn |-> <<>>]
         ELSE [throws |-> FALSE, v |-> decompressLH5(compressedData, originalSize),
               warn |-> <<>>]
    ELSE IF method = MethodLhd
    THEN [throws |-> FALSE, v |-> <<>>, warn |-> <<>>]
    ELSE [throws |-> FALSE, v |-> compressedData, warn |-> << "Unsupported compression method" >>]

\* mutant: an empty name is returned as it is
SanitizeFilename_NoPlaceholder(filename) == Trim(StripControl(filename))
\* part_002 199
SanitizeFilename(filename) ==
    LET sanitized == Trim(StripControl(filename))
    IN  IF sanitized = <<>> THEN Unnamed ELSE sanitized

\* readHeader is written as one definition per statement, each handing the
\* locals read so far (h) and the result of the next read to the definition of
\* the statement after it.

\* part_002 201-210
AfterDecompress(h, off, decompressed) ==
    IF decompressed.throws THEN Throws(off)
    ELSE ReturnFile(off,
                    [filename |-> SanitizeFilename(h.filename),
                     originalSize |-> h.originalSize,
                     compressedSize |-> h.compressedSize,
                     timestamp |-> h.timestamp,
                     crc |-> h.crc,
                     method |-> h.method,
                     os |-> h.os,
                     data |-> decompressed.v],
                    decompressed.warn)

\* part_002 176-196
AfterCompressedData(h, compressedData) ==
    IF compressedData.throws THEN Throws(compressedData.off)
    ELSE AfterDecompress(h, compressedData.off,
                         Decompress(h.method, compressedData.v, h.originalSize))

\* part_002 170-176
AfterExtended(buffer, h, extended) ==
    IF extended.throws THEN Throws(extended.off)
    ELSE IF JsGreater(JsAdd(extended.off, h.compressedSize), Len(buffer))
    THEN ReturnNull(extended.off, << "Compressed data extends beyond file bounds" >>)
    ELSE AfterCompressedData(h, readBytes(buffer, extended.off, h.compressedSize))

\* part_002 154-168
AfterOs(buffer, h, os) ==
    IF os.throws THEN Throws(os.off)
    ELSE AfterExtended(buffer, [os |-> os.v] @@ h,
                       IF h.level = 1 THEN SkipExtendedHeaders(buffer, os.off)
                       ELSE IF h.level = 2
                       THEN SkipLevel2Header(buffer, os.off, h.headerSize)
                       ELSE Read(0, os.off))

\* part_002 146-152
AfterCrc(buffer, h, crc) ==
    IF crc.throws THEN Throws(crc.off)
    ELSE AfterOs(buffer, [crc |-> crc.v] @@ h,
                 IF h.level # Undefined /\ h.level >= 1
                 THEN readByte(buffer, crc.off)
                 ELSE Read(0, crc.off))

\* part_002 143-146
AfterFilename(buffer, h, filename) ==
    IF filename.throws THEN Throws(filename.off)
    ELSE AfterCrc(buffer, [filename |-> filename.v] @@ h, readWord(buffer, filename.off))

\* part_002 140-143
AfterFilenameLength(buffer, h, filenameLength) ==
    IF filenameLength.throws THEN Throws(filenameLength.off)
    ELSE AfterFilename(buffer, h,
                       readString(buffer, filenameLength.off, ToNumber(filenameLength.v)))

\* part_002 137-140
AfterLevel(buffer, h, level) ==
    IF level.throws THEN Throws(level.off)
    ELSE AfterFilenameLength(buffer, [level |-> level.v] @@ h, readByte(buffer, level.off))

\* part_002 134-137
AfterAttributes(buffer, h, attributes) ==
    IF attributes.throws THEN Throws(attributes.off)
    ELSE AfterLevel(buffer, h, readByte(buffer, attributes.off))

\* part_002 130-134
AfterDosDate(buffer, h, dosDate) ==
    IF dosDate.throws THEN Throws(dosDate.off)
    ELSE AfterAttributes(buffer,
                         [timestamp |-> dosDateTimeToDate(dosDate.v, h.dosTime)] @@ h,
                         readByte(buffer, dosDate.off))

\* part_002 129-130
AfterDosTime(buffer, h, dosTimeWord) ==
    IF dosTimeWord.throws THEN Throws(dosTimeWord.off)
    ELSE AfterDosDate(buffer, [dosTime |-> dosTimeWord.v] @@ h,
                      readWord(buffer, dosTimeWord.off))

\* part_002 120-129
AfterOriginalSize(buffer, h, originalSize) ==
    IF originalSize.throws THEN Throws(originalSize.off)
    ELSE IF SuspiciousSizes(h.compressedSize, originalSize.v, Len(buffer))
    THEN ReturnNull(originalSize.off, << "Suspicious file sizes" >>)
    ELSE AfterDosTime(buffer, [originalSize |-> originalSize.v] @@ h,
                      readWord(buffer, originalSize.off))

\* part_002 117-120
AfterCompressedSize(buffer, h, compressedSize) ==
    IF compressedSize.throws THEN Throws(compressedSize.off)
    ELSE AfterOriginalSize(buffer, [compressedSize |-> compressedSize.v] @@ h,
                           readDWord(buffer, compressedSize.off))

\* part_002 107-117
AfterMethod(buffer, h, method) ==
    IF method.throws THEN Throws(method.off)
    ELSE IF UnknownMethod(method.v)
    THEN ReturnNull(method.off, << "Unknown compression method" >>)
    ELSE AfterCompressedSize(buffer, [method |-> method.v] @@ h,
                             readDWord(buffer, method.off))

\* mutant: a header whose checksum byte is not the sum of the bytes that
\* follow it ends the archive
AfterHeaderChecksum_Verified(buffer, h, headerChecksum) ==
    IF headerChecksum.throws THEN Throws(headerChecksum.off)
    ELSE IF headerChecksum.v #
            SumRange(buffer, headerChecksum.off,
                     Min(headerChecksum.off + h.headerSize, Len(buffer))) % 256
         THEN ReturnNull(headerChecksum.off, << "Header checksum mismatch" >>)
    ELSE AfterMethod(buffer, h, readString(buffer, headerChecksum.off, 5))

\* part_002 104-107; the checksum byte is read and not used again
AfterHeaderChecksum(buffer, h, headerChecksum) ==
    IF headerChecksum.throws THEN Throws(headerChecksum.off)
    ELSE AfterMethod(buffer, h, readString(buffer, headerChecksum.off, 5))

\* part_002 98-104
AfterHeaderSize(buffer, headerSize) ==
    IF headerSize.throws THEN Throws(headerSize.off)
    ELSE IF InvalidHeaderSize(headerSize.v) THEN ReturnNull(headerSize.off, <<>>)
    ELSE AfterHeaderChecksum(buffer, [headerSize |-> headerSize.v],
                             readByte(buffer, headerSize.off))

\* part_002 93-211
readHeader(buffer, off0) ==
    IF JsAtLeast(off0, Len(buffer)) THEN ReturnNull(off0, <<>>)
    ELSE AfterHeaderSize(buffer, readByte(buffer, off0))

(***************************************************************************)
(* Inputs the specifications draw from.                                    *)
(***************************************************************************)

\* all sequences over S of length at most n
RECURSIVE SeqsUpTo(_, _)
SeqsUpTo(S, n) ==
    IF n = 0 THEN {<<>>}
    ELSE LET shorter == SeqsUpTo(S, n - 1)
         IN  shorter \cup {Append(q, b) : q \in {r \in shorter : Len(r) = n - 1}, b \in S}

\* longest buffer given to calculateCRC16; from three bytes on the unmasked
\* accumulator is shifted past bit 31
MaxCrcLen == 3
CrcBytes == {0, 1, 128, 255}

YearSamples == {1979, 1980, 2024, 2107, 2108}
DateSamples ==
    {d \in [year : YearSamples, month : {0, 1, 11}, day : {1, 29, 31},
            hour : {0, 23}, minute : {0, 59}, second : {0, 1, 59}] :
        d.day <= DaysInMonth(d.year, d.month)}

NoDos == [date |-> 0, time |-> 0]

\* a name of n letters "a"
LongName(n) == [i \in 1 .. n |-> 97]

\* File names given to create: empty; plain; led by a space; holding a control
\* character; holding a NUL; two-byte UTF-8; and names whose UTF-8 length is
\* at, and just past, the sizes the header-size byte and the length byte hold
NameSamples ==
    { <<>>, << 97 >>, << 32, 97 >>, << 97, 1, 98 >>, << 97, 0, 98 >>, << 233 >>,
      LongName(106), LongName(107), LongName(234), LongName(235),
      LongName(255), LongName(256), LongName(254) \o << 233 >> }

\* longest payload of a file given to create
MaxDataLen == 1
DataBytes == {0, 255}
DataSamples == SeqsUpTo(DataBytes, MaxDataLen)

StampSample == [year |-> 2024, month |-> 1, day |-> 29, hour |-> 23, minute |-> 59, second |-> 59]
\* the clock when create runs, read for a file without a timestamp
NowSamples == {[year |-> 2026, month |-> 10, day |-> 4, hour |-> 12, minute |-> 0, second |-> 1]}

LHAFileInput(filename, bytes, stamp) ==
    [filename |-> filename, data |-> bytes, timestamp |-> stamp]

FileSamples ==
    {LHAFileInput(n, <<>>, StampSample) : n \in NameSamples}
    \cup {LHAFileInput(<< 97 >>, d, t) : d \in DataSamples, t \in {StampSample, NoDate}}

\* the files of the lists that hold more than one
SmallFiles ==
    { LHAFileInput(<< 97 >>, <<>>, StampSample),
      LHAFileInput(<< 98 >>, << 0 >>, StampSample),
      LHAFileInput(<<>>, << 255 >>, StampSample),
      LHAFileInput(LongName(107), <<>>, StampSample) }

\* most files in one call of create
MaxFiles == 2

RECURSIVE ListsOfLength(_, _)
ListsOfLength(S, n) ==
    IF n = 0 THEN {<<>>}
    ELSE {Append(l, f) : l \in ListsOfLength(S, n - 1), f \in S}

FileLists ==
    {<<>>} \cup {<< f >> : f \in FileSamples}
    \cup UNION {ListsOfLength(SmallFiles, n) : n \in 2 .. MaxFiles}

\* most entries extractAll is followed through; the loop itself has no bound
MaxEntries == 4

(***************************************************************************)
(* Hand-built headers, laid out as readHeader reads them (part_002 98-152). *)
(***************************************************************************)

\* size fields, least significant byte first
DWordZero == << 0, 0, 0, 0 >>
DWordSmall(n) == << n, 0, 0, 0 >>
\* 65536
DWord64K == << 0, 0, 1, 0 >>
\* 100 * 1024 * 1024, and one more
DWord100MiB == << 0, 0, 64, 6 >>
DWordOver100MiB == << 1, 0, 64, 6 >>
\* 0x7FFFFFFF, 0x80000000, 0xFFFFFFFF
DWordMaxInt32 == << 255, 255, 255, 127 >>
DWordSignBit == << 0, 0, 0, 128 >>
DWordAllOnes == << 255, 255, 255, 255 >>
\* -n for n in 1 .. 255, as readDWord reads it
DWordMinus(n) == << 256 - n, 255, 255, 255 >>

MethodLzs == << 45, 108, 122, 115, 45 >>
MethodLhx == << 45, 108, 104, 120, 45 >>
MethodNone == << 88, 88, 88, 88, 88 >>

\* everything of a header after its size byte and its checksum byte
HeaderBody(c) ==
    c.method \o c.compressedSize \o c.originalSize
    \o << 0, 0 >> \o << 33, 0 >> \o << 32, c.level, Len(c.filename) >>
    \o c.filename \o << 0, 0 >> \o c.tail

HeaderBytes(c) ==
    LET body == HeaderBody(c)
    IN  << c.headerSize, calculateHeaderChecksum(body, 0, Len(body)) >> \o body

\* the header, its payload and what follows, less the last c.cut bytes
CraftedBytes(c) ==
    LET whole == HeaderBytes(c) \o c.payload \o c.after
    IN  SubSeq(whole, 1, Len(whole) - c.cut)

\* a level-0 stored entry named "c" with a one-byte payload, then the end marker
PlainHeader ==
    [headerSize |-> 23, method |-> MethodLh0, compressedSize |-> DWordSmall(1),
     originalSize |-> DWordSmall(1), level |-> 0, filename |-> << 99 >>,
     tail |-> <<>>, payload |-> << 7 >>, after |-> << 0 >>, cut |-> 0]

\* the compressed-size field promises more than the buffer holds
OversizedPayloads ==
    {[PlainHeader EXCEPT !.compressedSize = cs, !.method = m, !.after = a] :
        cs \in {DWordSmall(2), DWordSmall(3), DWord64K, DWordMaxInt32, DWordSignBit,
                DWordAllOnes},
        m \in {MethodLh0, MethodLhd}, a \in {<<>>, << 0 >>}}

\* the original-size field at and past the ceiling, under each kind of method
LargeOriginals ==
    {[PlainHeader EXCEPT !.originalSize = os, !.method = m] :
        os \in {DWordOver100MiB, DWordMaxInt32, DWordSignBit, DWordAllOnes},
        m \in {MethodLh0, MethodLh1, MethodLh5, MethodLhd, MethodLzs, MethodLhx,
               MethodNone}}
    \cup {[PlainHeader EXCEPT !.originalSize = DWord100MiB, !.method = m] :
            m \in {MethodLh0, MethodLhd}}

\* the size byte at and past both ends of 1..128
SizeBytes ==
    {[PlainHeader EXCEPT !.headerSize = hs] : hs \in {0, 1, 23, 128, 129, 255}}

Methods ==
    {[PlainHeader EXCEPT !.method = m] :
        m \in {MethodLh0, MethodLhd, MethodLzs, MethodLhx, MethodNone}}
    \cup {[PlainHeader EXCEPT !.method = m, !.after = CraftedBytes(PlainHeader)] :
            m \in {MethodLhx, MethodLhd}}
    \cup {[PlainHeader EXCEPT !.method = MethodLh1, !.compressedSize = DWordSmall(4),
                              !.originalSize = DWordSmall(2),
                              !.payload = << 131, 0, 0, 0 >>],
          [PlainHeader EXCEPT !.method = MethodLh5, !.compressedSize = DWordSmall(6),
                              !.originalSize = DWordSmall(6),
                              !.payload = << 3, 97, 98, 2, 1, 0 >>]}

\* headers of level 1 and 2 with whole and with cut-off extensions
Levels ==
    {[PlainHeader EXCEPT !.level = 1, !.tail = t] :
        t \in {<< 77, 0, 0 >>, << 77, 5, 0, 1, 2, 3, 0, 0 >>, << 77, 9, 0 >>, << 77 >>,
               << 77, 2, 0, 0, 0 >>, << 77, 3, 0, 9, 2, 0, 0, 0 >>,
               << 77, 1, 0, 0, 0 >>, << 77, 1, 0 >>, << 77, 255, 255 >>}}
    \cup {[PlainHeader EXCEPT !.level = 2, !.tail = t] :
            t \in {<< 77, 23, 0 >>, << 77, 27, 0, 1, 2 >>, << 77, 40, 0 >>,
                   << 77, 22, 0 >>, << 77, 24, 0 >>, << 77, 25, 0 >>,
                   << 77, 27, 0, 1, 2, 3, 4 >>}}
    \cup {[PlainHeader EXCEPT !.level = 3]}

\* the buffer ends inside the header or inside the payload
CutShort ==
    {[PlainHeader EXCEPT !.after = <<>>, !.cut = k] :
        k \in 1 .. Len(HeaderBytes(PlainHeader))}
    \cup {[PlainHeader EXCEPT !.after = <<>>, !.cut = k, !.compressedSize = DWordZero,
                              !.originalSize = DWordZero, !.payload = <<>>] :
            k \in 1 .. Len(HeaderBytes(PlainHeader)) - 1}

\* the original-size field is smaller than the payload
SmallOriginals ==
    {[PlainHeader EXCEPT !.originalSize = DWordZero, !.method = m] :
        m \in {MethodLh0, MethodLh1, MethodLh5, MethodLhd, MethodLhx}}
    \cup {[PlainHeader EXCEPT !.method = m, !.compressedSize = DWordSmall(4),
                              !.originalSize = DWordSmall(1),
                              !.payload = << 255, 97, 98, 99 >>] :
            m \in {MethodLh0, MethodLh1, MethodLh5, MethodLzs}}

\* filename bytes: none; a NUL first; control characters and spaces only; a
\* byte order mark; a no-break space; a lone continuation byte; padded with
\* spaces; cut by a NUL
FilenameBytes ==
    { <<>>, << 0, 97 >>, << 1, 32, 9 >>, << 32 >>, << 127, 10 >>, << 239, 187, 191 >>,
      << 194, 160 >>, << 128 >>, << 32, 97, 32 >>, << 97, 0, 98 >> }

Filenames ==
    {[PlainHeader EXCEPT !.filename = n, !.headerSize = 22 + Len(n)] : n \in FilenameBytes}

\* the compressed-size field holds minus the length of the header, and one
\* less and one more than that
BackwardPayloads ==
    {[PlainHeader EXCEPT !.compressedSize = DWordMinus(Len(HeaderBytes(PlainHeader)) + d)] :
        d \in {-1, 0, 1}}

CraftedSamples ==
    OversizedPayloads \cup LargeOriginals \cup SizeBytes \cup Methods \cup Levels
    \cup CutShort \cup SmallOriginals \cup Filenames \cup BackwardPayloads

\* the well-formed entries written ahead of a hand-built header
PrefixFiles ==
    << LHAFileInput(<< 97 >>, << 1 >>, StampSample),
       LHAFileInput(<< 98 >>, <<>>, StampSample),
       LHAFileInput(<< 100, 46, 116 >>, << 0, 255 >>, StampSample) >>

\* most well-formed entries ahead of a hand-built header
MaxPrefix == 2

PrefixLists == {SubSeq(PrefixFiles, 1, n) : n \in 0 .. Min(MaxPrefix, Len(PrefixFiles))}

(***************************************************************************)
(* calculateCRC16 on its own.                                              *)
(***************************************************************************)

InitCrc ==
    /\ pc = "crc"
    /\ crcInput \in SeqsUpTo(CrcBytes, MaxCrcLen)
    /\ crcValue = 0
    /\ lzMethod = "" /\ lzTokens = <<>> /\ lzCompressed = <<>> /\ lzSize = 0 /\ lzOutput = <<>>
    /\ lzState = <<>>
    /\ createFiles = <<>> /\ fileIdx = 0 /\ output = <<>> /\ archive = <<>>
    /\ data = <<>> /\ offset = 0 /\ files = <<>> /\ warnings = <<>>
    /\ crafted = <<>> /\ tampered = <<>> /\ earlier = <<>>
    /\ timestamp = NoDate /\ dosTime = NoDos /\ decodedDate = NoDate

ComputeCRC ==
    /\ pc = "crc"
    /\ crcValue' = calculateCRC16(crcInput)
    /\ pc' = "crcDone"
    /\ UNCHANGED << crcInput, archive, encoderVars, decoderVars, harnessVars, dateVars,
                    lzssVars >>

NextCrc == ComputeCRC

SpecCrc == InitCrc /\ [][NextCrc]_vars

\* The reference CRC: polynomial 0x1021, initial value 0, MSB first, the
\* 16-bit accumulator masked after every shift.
ReferenceShift(c) ==
    IF c >= 32768 THEN NatXor((c * 2) % 65536, 4129) ELSE (c * 2) % 65536

RECURSIVE ReferenceShifts(_, _)
ReferenceShifts(c, j) ==
    IF j = 0 \/ c \notin Nat THEN c ELSE ReferenceShifts(ReferenceShift(c), j - 1)

RECURSIVE ReferenceCRC16From(_, _, _)
ReferenceCRC16From(bytes, i, c) ==
    IF i > Len(bytes) \/ c \notin Nat THEN c
    ELSE ReferenceCRC16From(bytes, i + 1, ReferenceShifts(NatXor(c, bytes[i] * 256), 8))

ReferenceCRC16(bytes) == ReferenceCRC16From(bytes, 1, 0)

\* C10: for every buffer calculateCRC16 returns the value of the reference CRC
\* that masks its accumulator to 16 bits after every shift, and the empty
\* buffer and the single byte 0x00 both give 0x0000.
C10_CrcMatchesReference ==
    pc = "crcDone" =>
        /\ crcValue = ReferenceCRC16(crcInput)
        /\ (crcInput \in {<<>>, <<0>>} => crcValue = 0)

\* a buffer long enough for the unmasked accumulator to reach the sign bit
C10_Witness ==
    /\ pc = "crcDone"
    /\ Len(crcInput) >= 3
    /\ CRCLoop(crcInput, 0, 0) < 0
    /\ crcValue # 0

(***************************************************************************)
(* dateToDosTime followed by dosDateTimeToDate.                            *)
(***************************************************************************)

InitDate ==
    /\ pc = "date"
    /\ timestamp \in DateSamples
    /\ dosTime = NoDos /\ decodedDate = NoDate
    /\ crcInput = <<>> /\ crcValue = 0
    /\ lzMethod = "" /\ lzTokens = <<>> /\ lzCompressed = <<>> /\ lzSize = 0 /\ lzOutput = <<>>
    /\ lzState = <<>>
    /\ createFiles = <<>> /\ fileIdx = 0 /\ output = <<>> /\ archive = <<>>
    /\ data = <<>> /\ offset = 0 /\ files = <<>> /\ warnings = <<>>
    /\ crafted = <<>> /\ tampered = <<>> /\ earlier = <<>>

PackDate ==
    /\ pc = "date"
    /\ dosTime' = dateToDosTime(timestamp)
    /\ pc' = "packed"
    /\ UNCHANGED << timestamp, decodedDate, archive, encoderVars, decoderVars,
                    harnessVars, crcVars, lzssVars >>

UnpackDate ==
    /\ pc = "packed"
    /\ decodedDate' = dosDateTimeToDate(dosTime.date, dosTime.time)
    /\ pc' = "unpacked"
    /\ UNCHANGED << timestamp, dosTime, archive, encoderVars, decoderVars,
                    harnessVars, crcVars, lzssVars >>

NextDate == PackDate \/ UnpackDate

SpecDate == InitDate /\ [][NextDate]_vars

EvenSecond(date) == [date EXCEPT !.second = 2 * (date.second \div 2)]

\* C9 for every timestamp: packing and unpacking recovers year,
\* month, day, hour and minute, and the second rounded down to an even number.
C9_EveryTimestampRoundTrips ==
    pc = "unpacked" => decodedDate = EvenSecond(timestamp)

\* C9 for the years dateToDosTime keeps: for every timestamp whose year lies
\* in 1980..2107, packing and unpacking recovers it with the second rounded
\* down to an even number; 1980..2107 is
\* the range dateToDosTime clamps the year to.
C9_TimestampRoundTrip ==
    (pc = "unpacked" /\ timestamp.year \in 1980 .. 2107) =>
        decodedDate = EvenSecond(timestamp)

C9_Witness ==
    /\ pc = "unpacked"
    /\ timestamp.year = 2107 /\ timestamp.month = 11 /\ timestamp.day = 31
    /\ timestamp.second = 59
    /\ decodedDate.second = 58
    /\ decodedDate.year = 2107

(***************************************************************************)
(* The writer and the reader as steps.                                     *)
(***************************************************************************)

\* encoder.ts 18-19: create(files) is called; this.output = []
CreateFrom(lists) ==
    /\ pc = "idle"
    /\ \E fileList \in lists : createFiles' = fileList
    /\ fileIdx' = 0
    /\ output' = <<>>
    /\ pc' = "create"
    /\ UNCHANGED << archive, decoderVars, harnessVars, dateVars, crcVars, lzssVars >>

\* encoder.ts 21-23: one iteration of the for loop
WriteFileHeader ==
    /\ pc = "create"
    /\ fileIdx < Len(createFiles)
    /\ \E now \in NowSamples :
           output' = output \o writeFileHeader(createFiles[fileIdx + 1], now)
    /\ fileIdx' = fileIdx + 1
    /\ UNCHANGED << pc, createFiles, archive, decoderVars, harnessVars, dateVars, crcVars, lzssVars >>

\* encoder.ts 25-37: the end marker is pushed and the chunks are joined
CreateReturn ==
    /\ pc = "create"
    /\ fileIdx = Len(createFiles)
    /\ output' = Append(output, EndMarker)
    /\ archive' = Concatenate(output')
    /\ pc' = "created"
    /\ UNCHANGED << createFiles, fileIdx, decoderVars, harnessVars, dateVars, crcVars, lzssVars >>

\* the offset in the archive of the header of entry k (0-based) of create's output
HeaderStart(chunks, k) == Len(Concatenate(SubSeq(chunks, 1, 2 * k)))

\* One byte of one header written by create, other than its size byte and
\* its checksum byte, is changed before the archive is read.
TamperHeader ==
    /\ pc = "created"
    /\ tampered = <<>>
    /\ \E k \in 0 .. Len(createFiles) - 1 :
         \E p \in 2 .. Len(output[2 * k + 1]) - 1 :
           \E delta \in {1, 128} :
             LET at == HeaderStart(output, k) + p
                 old == archive[at + 1]
                 new == (old + delta) % 256
             IN  /\ archive' = SetByte(archive, at, new)
                 /\ tampered' = << [entry |-> k, pos |-> p, old |-> old, new |-> new] >>
    /\ UNCHANGED << pc, crafted, earlier, encoderVars, decoderVars, dateVars, crcVars, lzssVars >>

\* part_002 22-24 and 76-77: new LZHDecoder(archive).extractAll() begins
ExtractAllBegin ==
    /\ pc = "created"
    /\ data' = archive
    /\ offset' = 0
    /\ files' = <<>>
    /\ warnings' = <<>>
    /\ pc' = "extract"
    /\ UNCHANGED << archive, encoderVars, harnessVars, dateVars, crcVars, lzssVars >>

\* part_002 80-87: the try block and its catch, given what readHeader did
LoopBody(file) ==
    /\ offset' = file.off
    /\ files' = IF file.kind = "entry" THEN Append(files, file.file) ELSE files
    /\ warnings' = warnings \o file.warn \o
                   (IF file.kind = "throw" THEN << "Error reading header" >> ELSE <<>>)
    /\ pc' = IF file.kind = "entry" THEN "extract" ELSE "returned"

\* part_002 79-88: one iteration of the while loop
ReadHeaderStep ==
    /\ pc = "extract"
    /\ JsLess(offset, Len(data))
    /\ Len(files) < MaxEntries
    /\ LoopBody(readHeader(data, offset))
    /\ UNCHANGED << data, archive, encoderVars, harnessVars, dateVars, crcVars, lzssVars >>

\* part_002 79 and 90: the loop condition fails and files is returned
ExtractAllReturn ==
    /\ pc = "extract"
    /\ ~JsLess(offset, Len(data))
    /\ pc' = "returned"
    /\ UNCHANGED << data, offset, files, warnings, archive, encoderVars, harnessVars,
                    dateVars, crcVars, lzssVars >>

Init ==
    /\ pc = "idle"
    /\ createFiles = <<>> /\ fileIdx = 0 /\ output = <<>> /\ archive = <<>>
    /\ data = <<>> /\ offset = 0 /\ files = <<>> /\ warnings = <<>>
    /\ crafted = <<>> /\ tampered = <<>> /\ earlier = <<>>
    /\ timestamp = NoDate /\ dosTime = NoDos /\ decodedDate = NoDate
    /\ crcInput = <<>> /\ crcValue = 0
    /\ lzMethod = "" /\ lzTokens = <<>> /\ lzCompressed = <<>> /\ lzSize = 0 /\ lzOutput = <<>>
    /\ lzState = <<>>

CreateCall == CreateFrom(FileLists)

Next ==
    \/ CreateCall
    \/ WriteFileHeader
    \/ CreateReturn
    \/ TamperHeader
    \/ ExtractAllBegin
    \/ ReadHeaderStep
    \/ ExtractAllReturn

Spec == Init /\ [][Next]_vars

(***************************************************************************)
(* Properties.                                                             *)
(***************************************************************************)

\* the 16-bit halves of a size field
Lo16(field) == field[1] + 256 * field[2]
Hi16(field) == field[3] + 256 * field[4]

\* the unsigned 32-bit value of a size field is greater than n
FieldExceeds(field, n) ==
    \/ Hi16(field) > n \div 65536
    \/ Hi16(field) = n \div 65536 /\ Lo16(field) > n % 65536

RecognisedMethod(method) ==
    StartsWith(method, PrefixLh) \/ StartsWith(method, PrefixLz)

\* extractAll has returned the entries create wrote and nothing else
ReturnedWrittenEntries ==
    /\ Len(files) = Len(createFiles)
    /\ \A i \in 1 .. Len(files) :
         /\ files[i].filename = createFiles[i].filename
         /\ files[i].data = createFiles[i].data

\* the hand-built header is whole and is well-formed up to its size fields
WholeHeader(c) ==
    /\ c.cut = 0
    /\ c.headerSize \in 1 .. 128
    /\ RecognisedMethod(c.method)
    /\ c.level = 0

\* the number of bytes of the UTF-8 form of a string
Utf8Length(str) ==
    Len(str) + Cardinality({i \in 1 .. Len(str) : str[i] >= 128})
             + Cardinality({i \in 1 .. Len(str) : str[i] >= 2048})
             + Cardinality({i \in 1 .. Len(str) : str[i] >= 65536})

\* the filename length a header stores for a name
StoredLength(filename) == Min(Utf8Length(filename), 255)

\* the offset at which entry k + 1 of fileList begins when every entry takes a
\* header of 24 + stored-filename-length bytes and then its payload
RECURSIVE EntryStart(_, _)
EntryStart(fileList, k) ==
    IF k = 0 THEN 0
    ELSE EntryStart(fileList, k - 1) + 24 + StoredLength(fileList[k].filename)
         + Len(fileList[k].data)

\* a name the reader's clean-up of file names leaves as it is, and that fits
\* the one-byte length field: printable ASCII without spaces, 1 to 255 long
PlainName(filename) ==
    /\ Len(filename) \in 1 .. 255
    /\ \A i \in 1 .. Len(filename) : filename[i] \in 33 .. 126

\* C1: extractAll applied to the bytes create returned yields as many entries
\* as create was given, in the same order, each with the filename and the bytes
\* of its input.  Stated here for the lists all of whose names are plain, where
\* the reader's clean-up of names plays no part.
C1_RoundTrip ==
    (/\ pc = "returned"
     /\ tampered = <<>>
     /\ crafted = <<>>
     /\ \A i \in 1 .. Len(createFiles) : PlainName(createFiles[i].filename))
    => ReturnedWrittenEntries

\* C6: create returns, in input order, each entry's header of 24 +
\* stored-filename-length bytes followed at once by its payload, then one 0x00
\* byte; for the empty list it returns the single byte 0x00.
C6_ArchiveLayout ==
    (pc = "created" /\ tampered = <<>> /\ crafted = <<>>) =>
        /\ Len(archive) = EntryStart(createFiles, Len(createFiles)) + 1
        /\ archive[Len(archive)] = 0
        /\ \A k \in 1 .. Len(createFiles) :
             LET start == EntryStart(createFiles, k - 1)
                 headerLength == 24 + StoredLength(createFiles[k].filename)
                 payloadLength == Len(createFiles[k].data)
             IN  /\ SubSeq(archive, start + 1, start + headerLength) = output[2 * k - 1]
                 /\ archive[start + 22] = StoredLength(createFiles[k].filename)
                 /\ SubSeq(archive, start + headerLength + 1,
                           start + headerLength + payloadLength) = createFiles[k].data
        /\ (createFiles = <<>> => archive = << 0 >>)

\* two entries with payloads and names of different lengths were written
C6_Witness ==
    /\ pc = "created"
    /\ tampered = <<>>
    /\ Len(createFiles) = 2
    /\ createFiles[1].data = << 0 >>
    /\ Len(createFiles[2].filename) = 107
    /\ Len(archive) = (24 + 1 + 1) + (24 + 107) + 1

\* C7: in every header written by create the byte at offset 1 is the sum
\* modulo 256 of the header's bytes from offset 2 to its end.
C7_ChecksumByte ==
    (pc = "created" /\ tampered = <<>> /\ crafted = <<>>) =>
        \A k \in 1 .. Len(createFiles) :
          LET start == EntryStart(createFiles, k - 1)
              headerLength == 24 + StoredLength(createFiles[k].filename)
          IN  archive[start + 2] =
                  SumRange(archive, start + 2, start + headerLength) % 256

\* a header whose last byte, the high byte of the CRC, is not zero and whose
\* checksum byte is not zero
C7_Witness ==
    /\ pc = "created"
    /\ tampered = <<>>
    /\ Len(createFiles) = 1
    /\ createFiles[1].data = << 255 >>
    /\ archive[25] # 0
    /\ archive[2] # 0

\* C8: after create has written a header, changing one of its bytes other than
\* the size byte and the checksum byte makes the reader report a checksum
\* mismatch for that entry: the entry is not returned, or a warning is given.
C8_TamperingDetected ==
    (pc = "returned" /\ tampered # <<>>) =>
        \/ Len(files) <= tampered[1].entry
        \/ warnings # <<>>

\* the value of the little-endian field of n bytes at 0-based offset at
LittleEndian(bytes, at, n) ==
    IF n = 2 THEN bytes[at + 1] + 256 * bytes[at + 2]
    ELSE bytes[at + 1] + 256 * bytes[at + 2] + 65536 * bytes[at + 3]
         + 16777216 * bytes[at + 4]

\* the time stamp create packs for a file: its own, or the clock's
StampOf(file) == IF file.timestamp = NoDate THEN CHOOSE now \in NowSamples : TRUE
                 ELSE file.timestamp

\* C17: every header written by create is a level-0 store header: the size
\* byte at 0, the checksum at 1, "-lh0-" at 2..6, the compressed size at 7..10
\* and the original size at 11..14, little-endian and both the payload length,
\* the packed time at 15..16 and the packed date at 17..18, the attributes at
\* 19, level 0 at 20, the filename length N at 21, N filename bytes from 22 and
\* the little-endian CRC-16 of the payload at 22 + N.
C17_StoreHeaderLayout ==
    (pc = "created" /\ tampered = <<>> /\ crafted = <<>>) =>
        \A k \in 1 .. Len(createFiles) :
          LET file == createFiles[k]
              s == EntryStart(createFiles, k - 1)
              N == StoredLength(file.filename)
              dos == dateToDosTime(StampOf(file))
          IN  /\ archive[s + 1] = (22 + N) % 256
              /\ archive[s + 2] = SumRange(archive, s + 2, s + 24 + N) % 256
              /\ SubSeq(archive, s + 3, s + 7) = << 45, 108, 104, 48, 45 >>
              /\ LittleEndian(archive, s + 7, 4) = Len(file.data)
              /\ LittleEndian(archive, s + 11, 4) = Len(file.data)
              /\ LittleEndian(archive, s + 15, 2) = dos.time
              /\ LittleEndian(archive, s + 17, 2) = dos.date
              /\ archive[s + 20] = 32
              /\ archive[s + 21] = 0
              /\ archive[s + 22] = N
              /\ SubSeq(archive, s + 23, s + 22 + N) = SubSeq(TextEncode(file.filename), 1, N)
              /\ LittleEndian(archive, s + 22 + N, 2) = ReferenceCRC16(file.data)
              /\ SubSeq(archive, s + 24 + N + 1, s + 24 + N + Len(file.data)) = file.data

\* the header of a nameless file with a one-byte payload, whose two size
\* fields and CRC are therefore not all zero, followed by a second header
C17_Witness ==
    /\ pc = "created"
    /\ tampered = <<>>
    /\ Len(createFiles) = 2
    /\ createFiles[1].data = << 255 >>
    /\ SubSeq(archive, 8, 15) = << 1, 0, 0, 0, 1, 0, 0, 0 >>
    /\ createFiles[1].filename = <<>>
    /\ archive[23] + 256 * archive[24] = ReferenceCRC16(<< 255 >>)
    /\ archive[23] # archive[24]
    /\ SubSeq(archive, 25 + 3, 25 + 7) = << 45, 108, 104, 48, 45 >>

(***************************************************************************)
(* decompressLH1 and decompressLH5 on streams built from known tokens.     *)
(***************************************************************************)

LiteralToken(byte) == [kind |-> "literal", byte |-> byte, position |-> 0, length |-> 0]
\* a back-reference with position (or distance) p and length value v
MatchToken(p, v) == [kind |-> "match", byte |-> 0, position |-> p, length |-> v]

TokenSamples ==
    {LiteralToken(97), LiteralToken(98)}
    \cup {MatchToken(0, 0), MatchToken(1, 0), MatchToken(4095, 0), MatchToken(0, 1)}

\* most tokens in one stream
MaxTokens == 3

TokenLists == UNION {ListsOfLength(TokenSamples, n) : n \in 0 .. MaxTokens}

\* the bytes the tokens stand for when nothing cuts them short
RECURSIVE FullLength(_)
FullLength(tokens) ==
    IF tokens = <<>> THEN 0
    ELSE (IF Head(tokens).kind = "literal" THEN 1 ELSE Head(tokens).length + 3)
         + FullLength(Tail(tokens))

\* the low n bits of value, least significant first
BitsOf(value, n) == [i \in 1 .. n |-> (value \div 2 ^ (i - 1)) % 2]

\* a token as decompressLH1 reads it: the flag bit, then 8 bits of a literal
\* or 12 bits of position and 4 bits of length
LH1TokenBits(token) ==
    IF token.kind = "literal" THEN << 1 >> \o BitsOf(token.byte, 8)
    ELSE << 0 >> \o BitsOf(token.position, 12) \o BitsOf(token.length, 4)

RECURSIVE LH1StreamBits(_)
LH1StreamBits(tokens) ==
    IF tokens = <<>> THEN <<>>
    ELSE LH1TokenBits(Head(tokens)) \o LH1StreamBits(Tail(tokens))

BitAt(bits, i) == IF i <= Len(bits) THEN bits[i] ELSE 0

\* the bits eight to a byte, the first bit of a byte its least significant
PackBits(bits) ==
    [k \in 1 .. (Len(bits) + 7) \div 8 |->
        LET at == 8 * (k - 1)
        IN  BitAt(bits, at + 1) + 2 * BitAt(bits, at + 2) + 4 * BitAt(bits, at + 3)
            + 8 * BitAt(bits, at + 4) + 16 * BitAt(bits, at + 5)
            + 32 * BitAt(bits, at + 6) + 64 * BitAt(bits, at + 7)
            + 128 * BitAt(bits, at + 8)]

\* the stream for decompressLH1, with one more byte after the last token so
\* that the loop test inPos < compressed.length lets the last token start
LH1Stream(tokens) == PackBits(LH1StreamBits(tokens)) \o << 0 >>

\* the bytes of a token as decompressLH5 reads them
LH5TokenBytes(token) ==
    IF token.kind = "literal" THEN << token.byte >>
    ELSE << token.position % 256, (token.position \div 256) * 16 + token.length >>

\* the flag byte of up to eight tokens: bit k is set for a literal
RECURSIVE LH5Flag(_, _)
LH5Flag(tokens, k) ==
    IF k > Len(tokens) \/ k > 8 THEN 0
    ELSE (IF tokens[k].kind = "literal" THEN 2 ^ (k - 1) ELSE 0) + LH5Flag(tokens, k + 1)

RECURSIVE LH5GroupBytes(_, _)
LH5GroupBytes(tokens, k) ==
    IF k > Len(tokens) \/ k > 8 THEN <<>>
    ELSE LH5TokenBytes(tokens[k]) \o LH5GroupBytes(tokens, k + 1)

\* the stream for decompressLH5, with one more byte after the last token
RECURSIVE LH5Groups(_)
LH5Groups(tokens) ==
    IF tokens = <<>> THEN <<>>
    ELSE << LH5Flag(tokens, 1) >> \o LH5GroupBytes(tokens, 1)
         \o LH5Groups(SubSeq(tokens, 9, Len(tokens)))

LH5Stream(tokens) == LH5Groups(tokens) \o << 0 >>

InitLzss ==
    /\ pc = "lzss"
    /\ lzMethod \in {"lh1", "lh5"}
    /\ lzTokens \in TokenLists
    /\ lzSize \in {FullLength(lzTokens), Max(FullLength(lzTokens) - 1, 0)}
    /\ lzCompressed = IF lzMethod = "lh1" THEN LH1Stream(lzTokens) ELSE LH5Stream(lzTokens)
    /\ lzOutput = <<>>
    /\ lzState = <<>>
    /\ crcInput = <<>> /\ crcValue = 0
    /\ timestamp = NoDate /\ dosTime = NoDos /\ decodedDate = NoDate
    /\ createFiles = <<>> /\ fileIdx = 0 /\ output = <<>> /\ archive = <<>>
    /\ data = <<>> /\ offset = 0 /\ files = <<>> /\ warnings = <<>>
    /\ crafted = <<>> /\ tampered = <<>> /\ earlier = <<>>

DecompressLH1 ==
    /\ pc = "lzss"
    /\ lzMethod = "lh1"
    /\ lzOutput' = decompressLH1(lzCompressed, lzSize)
    /\ pc' = "lzssDone"
    /\ UNCHANGED << lzMethod, lzTokens, lzCompressed, lzSize, lzState, archive,
                    encoderVars, decoderVars, harnessVars, dateVars, crcVars >>

DecompressLH5 ==
    /\ pc = "lzss"
    /\ lzMethod = "lh5"
    /\ lzOutput' = decompressLH5(lzCompressed, lzSize)
    /\ pc' = "lzssDone"
    /\ UNCHANGED << lzMethod, lzTokens, lzCompressed, lzSize, lzState, archive,
                    encoderVars, decoderVars, harnessVars, dateVars, crcVars >>

NextLzss == DecompressLH1 \/ DecompressLH5

SpecLzss == InitLzss /\ [][NextLzss]_vars

\* The 4KB-window decoding as the format describes it: a literal is emitted and
\* appended to the dictionary; a match of position p and length value v emits
\* the dictionary bytes at p, p+1, ... modulo 4096, v+3 of them, each appended
\* to the dictionary as it is emitted; nothing is emitted past size bytes.
ReferenceEmit(r, byte) ==
    [out |-> Append(r.out, byte),
     dict |-> WindowWrite(r.dict, Len(r.out) % 4096, byte)]

RECURSIVE ReferenceCopy(_, _, _, _)
ReferenceCopy(r, p, n, size) ==
    IF n = 0 \/ Len(r.out) >= size THEN r
    ELSE ReferenceCopy(ReferenceEmit(r, WindowRead(r.dict, p % 4096)), p + 1, n - 1, size)

RECURSIVE ReferenceDecode(_, _, _, _)
ReferenceDecode(tokens, k, r, size) ==
    IF k > Len(tokens) \/ Len(r.out) >= size THEN r
    ELSE ReferenceDecode(tokens, k + 1,
             IF tokens[k].kind = "literal" THEN ReferenceEmit(r, tokens[k].byte)
             ELSE ReferenceCopy(r, tokens[k].position, tokens[k].length + 3, size),
             size)

ReferenceLZSS(tokens, size) ==
    ReferenceDecode(tokens, 1, [out |-> <<>>, dict |-> EmptyWindow], size).out

\* C11: in the 4KB-window routine a match token with position p and length
\* value v emits v+3 bytes (fewer only if the output fills), the dictionary
\* bytes at p, p+1, p+2, ... modulo 4096, each appended to the dictionary as it
\* is emitted.
C11_MatchCopiesRun ==
    (pc = "lzssDone" /\ lzMethod = "lh1") => lzOutput = ReferenceLZSS(lzTokens, lzSize)

(***************************************************************************)
(* The reader given an archive that ends in a hand-built header.           *)
(***************************************************************************)

CreatePrefix == CreateFrom(PrefixLists)

\* The end marker create wrote gives way to a hand-built header.
AppendCrafted ==
    /\ pc = "created"
    /\ crafted = <<>>
    /\ \E c \in CraftedSamples :
         /\ archive' = SubSeq(archive, 1, Len(archive) - 1) \o CraftedBytes(c)
         /\ crafted' = << c >>
    /\ UNCHANGED << pc, tampered, earlier, encoderVars, decoderVars, dateVars, crcVars, lzssVars >>

NextCrafted ==
    \/ CreatePrefix
    \/ WriteFileHeader
    \/ CreateReturn
    \/ AppendCrafted
    \/ ExtractAllBegin
    \/ ReadHeaderStep
    \/ ExtractAllReturn

SpecCrafted == Init /\ [][NextCrafted]_vars

\* C2: when N well-formed entries are followed by a header whose compressed-size
\* field is larger than the number of bytes that remain after the header,
\* extractAll returns exactly the N entries.
C2_TruncatedPayloadYieldsFirstN ==
    (/\ pc = "returned"
     /\ crafted # <<>>
     /\ WholeHeader(crafted[1])
     /\ ~FieldExceeds(crafted[1].originalSize, 100 * 1024 * 1024)
     /\ FieldExceeds(crafted[1].compressedSize,
                     Len(crafted[1].payload) + Len(crafted[1].after)))
    => ReturnedWrittenEntries

\* C3: a header whose original-size field holds a value greater than 100 MiB
\* gives no entry, whatever its method tag.
C3_OversizedOriginalRejected ==
    (/\ pc = "returned"
     /\ crafted # <<>>
     /\ crafted[1].cut = 0
     /\ crafted[1].headerSize \in 1 .. 128
     /\ FieldExceeds(crafted[1].originalSize, 100 * 1024 * 1024))
    => ReturnedWrittenEntries

\* the header is malformed or cut short in the sense of the reader's policy
Malformed(c) ==
    \/ c.headerSize \notin 1 .. 128
    \/ ~RecognisedMethod(c.method)
    \/ FieldExceeds(c.compressedSize, Len(c.payload) + Len(c.after) - c.cut)
    \/ FieldExceeds(c.originalSize, 100 * 1024 * 1024)
    \/ c.cut > Len(c.after)

\* C4: extractAll never raises, and at a malformed or cut-short header it stops
\* and returns exactly the entries accumulated before that header.
C4_MalformedHeaderStopsCleanly ==
    (pc = "returned" /\ crafted # <<>> /\ Malformed(crafted[1]))
    => ReturnedWrittenEntries

\* C5: when the byte at a header position is 0 the loop ends with the entries
\* read so far, and the archive [0x00] gives no entry.
C5_ZeroSizeByteStops ==
    /\ [][(/\ pc = "extract"
           /\ offset \in 0 .. Len(data) - 1
           /\ data[offset + 1] = 0)
          => (pc' = "returned" /\ files' = files)]_vars
    /\ []((pc = "returned" /\ data = << 0 >>) => files = <<>>)

\* two entries were read, then a zero size byte ahead of an otherwise whole header
C5_Witness ==
    /\ pc = "returned"
    /\ crafted # <<>>
    /\ crafted[1] = [PlainHeader EXCEPT !.headerSize = 0]
    /\ Len(createFiles) = 2
    /\ ReturnedWrittenEntries
    /\ offset = Len(data) - Len(CraftedBytes(crafted[1])) + 1

\* C12: every returned entry, whatever its method tag, holds at most
\* originalSize bytes of data.  Stated for the entries whose original size was
\* read as written (a size field below 2^31).
C12_DataWithinOriginalSize ==
    \A i \in 1 .. Len(files) :
        files[i].originalSize >= 0 => Len(files[i].data) <= files[i].originalSize

\* where the hand-built header begins in the buffer being read
CraftedStart == Len(data) - Len(CraftedBytes(crafted[1]))

\* the bytes of the hand-built header up to its payload
CraftedHeaderLength == Len(HeaderBytes(crafted[1]))

\* the reader is about to read the hand-built header
AtCraftedHeader ==
    /\ pc = "extract"
    /\ crafted # <<>>
    /\ offset = CraftedStart
    /\ Len(files) < MaxEntries

\* the compressed-size field is the length of the payload that follows
PayloadAsDeclared(c) ==
    /\ Len(c.payload) < 256
    /\ c.compressedSize = DWordSmall(Len(c.payload))

\* C13: a header whose tag passes the prefix check but is none of -lh0-, -lh1-,
\* -lh4-, -lh5-, -lh6-, -lh7-, -lhd- gives an entry whose data is the payload
\* unmodified and whose method is the tag as read, and extractAll goes on to
\* the header after the payload.
C13_UnsupportedMethodPassesThrough ==
    [][(/\ AtCraftedHeader
        /\ WholeHeader(crafted[1])
        /\ crafted[1].tail = <<>>
        /\ PayloadAsDeclared(crafted[1])
        /\ ~FieldExceeds(crafted[1].originalSize, 100 * 1024 * 1024)
        /\ crafted[1].method \notin {MethodLh0, MethodLh1, MethodLh4, MethodLh5,
                                     MethodLh6, MethodLh7, MethodLhd})
       => (/\ Len(files') = Len(files) + 1
           /\ files'[Len(files')].data = crafted[1].payload
           /\ files'[Len(files')].method = crafted[1].method
           /\ SubSeq(files', 1, Len(files)) = files
           /\ pc' = "extract"
           /\ offset' = offset + CraftedHeaderLength + Len(crafted[1].payload))]_vars

\* an -lhx- entry was passed through after a written entry, and the header
\* behind its payload was read as well
C13_Witness ==
    /\ pc = "returned"
    /\ crafted # <<>>
    /\ crafted[1].method = MethodLhx
    /\ Len(createFiles) = 1
    /\ Len(files) = 3
    /\ files[2].method = MethodLhx
    /\ files[2].data = << 7 >>
    /\ files[3].method = MethodLh0
    /\ warnings = << "Unsupported compression method" >>

\* C14: a header with the tag -lhd- gives an entry with empty data and leaves
\* the cursor exactly at the end of the header, whatever its compressed-size
\* field says.
C14_DirectoryConsumesHeaderOnly ==
    [][(/\ AtCraftedHeader
        /\ WholeHeader(crafted[1])
        /\ crafted[1].tail = <<>>
        /\ ~FieldExceeds(crafted[1].originalSize, 100 * 1024 * 1024)
        /\ crafted[1].method = MethodLhd)
       => (/\ Len(files') = Len(files) + 1
           /\ files'[Len(files')].data = <<>>
           /\ offset' = offset + CraftedHeaderLength)]_vars

\* filename bytes that are empty, start with a NUL, or are all control
\* characters and spaces
BlankName(bytes) ==
    \/ bytes = <<>>
    \/ bytes[1] = 0
    \/ \A i \in 1 .. Len(bytes) : bytes[i] \in 0 .. 32 \cup {127}

\* C15: every entry extractAll returns has a non-empty filename, and when the
\* filename bytes are empty, start with a NUL, or are only control characters
\* and white space, the filename is 'unnamed'.
C15_FilenameNeverEmpty ==
    /\ \A i \in 1 .. Len(files) : files[i].filename # <<>>
    /\ (/\ crafted # <<>>
        /\ Len(files) > Len(createFiles)
        /\ WholeHeader(crafted[1])
        /\ PayloadAsDeclared(crafted[1])
        /\ ~FieldExceeds(crafted[1].originalSize, 100 * 1024 * 1024)
        /\ BlankName(crafted[1].filename))
       => files[Len(createFiles) + 1].filename = Unnamed

\* an entry whose filename bytes are a control character, a space and a tab
C15_Witness ==
    /\ pc = "returned"
    /\ crafted # <<>>
    /\ crafted[1].filename = << 1, 32, 9 >>
    /\ Len(createFiles) = 2
    /\ Len(files) = 3
    /\ files[3].filename = Unnamed
    /\ files[3].data = << 7 >>

\* C16: every entry extractAll returns has originalSize >= 0 and
\* compressedSize >= 0, whatever the two size fields of its header hold.
C16_SizesNonNegative ==
    \A i \in 1 .. Len(files) :
        files[i].originalSize >= 0 /\ files[i].compressedSize >= 0

\* the hand-built header about to be read is a whole level-2 header of a
\* stored entry, with the total-header-size word after its OS byte
AtLevel2Header ==
    /\ AtCraftedHeader
    /\ WholeHeader([crafted[1] EXCEPT !.level = 0])
    /\ crafted[1].level = 2
    /\ crafted[1].method = MethodLh0
    /\ PayloadAsDeclared(crafted[1])
    /\ ~FieldExceeds(crafted[1].originalSize, 100 * 1024 * 1024)
    /\ Len(crafted[1].tail) >= 3

\* where the total-header-size word of the hand-built header begins
TotalSizeAt == CraftedStart + CraftedHeaderLength - Len(crafted[1].tail) + 1

\* the total-header-size word T of the hand-built header
TotalHeaderSize == crafted[1].tail[2] + 256 * crafted[1].tail[3]

\* the bytes C19 says are skipped after the word
Level2Skip ==
    IF TotalHeaderSize > crafted[1].headerSize
    THEN TotalHeaderSize - crafted[1].headerSize ELSE 0

\* C19: in a level-2 header, after the 2-byte total-header-size T is read, the
\* cursor skips exactly T - H bytes before the payload when T exceeds the
\* header-size byte H and nothing otherwise, and it never moves backwards.
C19_Level2SkipsDifference ==
    [][AtLevel2Header =>
         LET skipped == SkipLevel2Header(data, TotalSizeAt, crafted[1].headerSize)
         IN  /\ skipped.throws \/ skipped.off >= TotalSizeAt + 2
             /\ skipped.throws \/ skipped.off = TotalSizeAt + 2 + Level2Skip
             /\ (pc' = "extract" =>
                    offset' = TotalSizeAt + 2 + Level2Skip + Len(crafted[1].payload))]_vars

\* the hand-built header about to be read is a whole level-1 header of a
\* stored entry, with its OS byte
AtLevel1Header ==
    /\ AtCraftedHeader
    /\ WholeHeader([crafted[1] EXCEPT !.level = 0])
    /\ crafted[1].level = 1
    /\ crafted[1].method = MethodLh0
    /\ PayloadAsDeclared(crafted[1])
    /\ ~FieldExceeds(crafted[1].originalSize, 100 * 1024 * 1024)
    /\ Len(crafted[1].tail) >= 1

\* where the first extension-size word of the hand-built header begins
ExtensionsAt == CraftedStart + CraftedHeaderLength - Len(crafted[1].tail) + 1

\* the bytes are extensions of sizes of at least 2, each whole, and then a
\* zero size
RECURSIVE WholeExtensions(_)
WholeExtensions(bytes) ==
    /\ Len(bytes) >= 2
    /\ LET size == bytes[1] + 256 * bytes[2]
       IN  IF size = 0 THEN Len(bytes) = 2
           ELSE /\ size >= 2
                /\ size <= Len(bytes)
                /\ WholeExtensions(SubSeq(bytes, size + 1, Len(bytes)))

\* the sum of the extension sizes
RECURSIVE SumOfSizes(_)
SumOfSizes(bytes) ==
    LET size == bytes[1] + 256 * bytes[2]
    IN  IF size = 0 THEN 0
        ELSE size + SumOfSizes(SubSeq(bytes, size + 1, Len(bytes)))

\* one round of the loop at cursor o: a size of zero or the end of the buffer
\* ends the loop, and any other size s leaves the cursor at o + s, past o
RoundAdvances(buffer, o) ==
    LET extSize == readWord(buffer, o)
    IN  /\ (~extSize.throws /\ extSize.v # 0) =>
              LET skipped == readBytes(buffer, extSize.off, extSize.v - 2)
              IN  \/ skipped.throws
                  \/ skipped.off = o + extSize.v /\ skipped.off > o
                     /\ skipped.off <= Len(buffer)
        /\ (o >= Len(buffer) => extSize.throws)

\* C20: in a level-1 header the reader reads 2-byte extension sizes: a size of
\* 0 ends the loop and any other size s skips s - 2 bytes; the loop ends for
\* every input, a size of 1 included, since every round moves the cursor
\* forward and the end of the buffer stops it; and when every size is at least
\* 2 the payload starts (sum of the sizes) + 2 bytes after the OS byte.
C20_Level1Extensions ==
    [][AtLevel1Header =>
         LET extensions == SubSeq(crafted[1].tail, 2, Len(crafted[1].tail))
             ended == SkipExtendedHeaders(data, ExtensionsAt)
         IN  /\ \A o \in ExtensionsAt .. Len(data) : RoundAdvances(data, o)
             /\ ended.throws \/ ended.off \in ExtensionsAt + 2 .. Len(data)
             /\ WholeExtensions(extensions) =>
                   /\ ~ended.throws
                   /\ ended.off = ExtensionsAt + SumOfSizes(extensions) + 2
                   /\ pc' = "extract"
                   /\ files'[Len(files')].data = crafted[1].payload
                   /\ offset' = ExtensionsAt + SumOfSizes(extensions) + 2
                                + Len(crafted[1].payload)]_vars

\* a level-1 header with extensions of sizes 3 and 2 was read and its entry
\* returned with the payload behind them
C20_Witness ==
    /\ pc = "returned"
    /\ crafted # <<>>
    /\ crafted[1].level = 1
    /\ crafted[1].tail = << 77, 3, 0, 9, 2, 0, 0, 0 >>
    /\ Len(files) = Len(createFiles) + 1
    /\ files[Len(files)].data = << 7 >>

(***************************************************************************)
(* The reader on archives whose checksum bytes were changed.               *)
(***************************************************************************)

\* The checksum byte of one header, written by create or hand-built, is
\* changed before the archive is read.
TamperChecksum ==
    /\ pc = "created"
    /\ tampered = <<>>
    /\ \E k \in 0 .. Len(createFiles) :
         \E delta \in {1, 128} :
           LET at == HeaderStart(output, k) + 1
               old == archive[at + 1]
               new == (old + delta) % 256
           IN  /\ at + 1 <= Len(archive)
               /\ k = Len(createFiles) => crafted # <<>>
               /\ archive' = SetByte(archive, at, new)
               /\ tampered' = << [entry |-> k, pos |-> 1, old |-> old, new |-> new] >>
    /\ UNCHANGED << pc, crafted, earlier, encoderVars, decoderVars, dateVars, crcVars, lzssVars >>

NextChecksum ==
    \/ CreatePrefix
    \/ WriteFileHeader
    \/ CreateReturn
    \/ AppendCrafted
    \/ TamperChecksum
    \/ ExtractAllBegin
    \/ ReadHeaderStep
    \/ ExtractAllReturn

SpecChecksum == Init /\ [][NextChecksum]_vars

\* part_002 76-91: the entries extractAll returns for a buffer, read from off
RECURSIVE extractAll(_, _, _)
extractAll(buffer, off, got) ==
    IF ~JsLess(off, Len(buffer)) \/ Len(got) >= MaxEntries THEN got
    ELSE LET file == readHeader(buffer, off)
         IN  IF file.kind = "entry"
             THEN extractAll(buffer, file.off, Append(got, file.file))
             ELSE got

\* the archive as it was before its checksum byte was changed
Untampered ==
    SetByte(data, HeaderStart(output, tampered[1].entry) + tampered[1].pos,
            tampered[1].old)

LH1LongMatches == 227
\* literals that follow them, which carry the write position past 4095
LH1LongLiterals == 12
\* flag bytes of eight longest matches each in the long stream for decompressLH5
LH5LongGroups == 57

\* bit i (from 1) of: the literal 97, LH1LongMatches matches of position 0 and
\* length 18, LH1LongLiterals literals 98, and one more such match
LH1LongBit(i) ==
    LET afterFirst == i - 9
        afterMatches == afterFirst - 17 * LH1LongMatches
        afterLiterals == afterMatches - 9 * LH1LongLiterals
    IN  IF i <= 9 THEN LH1TokenBits(LiteralToken(97))[i]
        ELSE IF afterMatches <= 0
        THEN LH1TokenBits(MatchToken(0, 15))[((afterFirst - 1) % 17) + 1]
        ELSE IF afterLiterals <= 0
        THEN LH1TokenBits(LiteralToken(98))[((afterMatches - 1) % 9) + 1]
        ELSE LH1TokenBits(MatchToken(0, 15))[afterLiterals]

LH1LongStream ==
    PackBits([i \in 1 .. 9 + 17 * LH1LongMatches + 9 * LH1LongLiterals + 17 |->
                 LH1LongBit(i)]) \o << 0 >>

\* the literal 97 and seven matches of distance 1 and length 18 under one flag
\* byte, then LH5LongGroups flag bytes of eight such matches each
LH5LongStream ==
    << 1, 97 >> \o [i \in 1 .. 14 |-> IF i % 2 = 1 THEN 1 ELSE 15]
    \o [i \in 1 .. 17 * LH5LongGroups |->
           LET j == (i - 1) % 17
           IN  IF j = 0 THEN 0 ELSE IF j % 2 = 1 THEN 1 ELSE 15]

\* the locals of decompressLH1 at entry, and those of decompressLH5 with flag,
\* bit and inFor
LzssStart(method, originalSize) ==
    IF method = "lh1" THEN LH1Start(originalSize)
    ELSE [flag |-> 0, bit |-> 0, inFor |-> FALSE] @@ LH5Start(originalSize)

\* literals, and matches of position (or distance) 0, 1, 2 and 4095
RoundTokenSamples ==
    {LiteralToken(97), LiteralToken(98)}
    \cup {MatchToken(0, 0), MatchToken(1, 0), MatchToken(2, 0), MatchToken(4095, 1)}

RoundTokenLists == UNION {ListsOfLength(RoundTokenSamples, n) : n \in 0 .. MaxTokens}

\* the streams of the token lists, whole and with their last one or two bytes
\* missing, for an output of the tokens' length, one less and two more
ShortLzssInput ==
    /\ lzTokens \in RoundTokenLists
    /\ lzSize \in {FullLength(lzTokens), Max(FullLength(lzTokens) - 1, 0),
                   FullLength(lzTokens) + 2}
    /\ \E cut \in 0 .. 2 :
         LET stream == IF lzMethod = "lh1" THEN LH1Stream(lzTokens)
                       ELSE LH5Stream(lzTokens)
         IN  lzCompressed = SubSeq(stream, 1, Len(stream) - cut)
    /\ lzState = LzssStart(lzMethod, lzSize)

\* part_002 256-275: n rounds of the while loop of decompressLH1, taken in
\* halves
RECURSIVE LH1Rounds(_, _, _, _)
LH1Rounds(compressed, originalSize, st, n) ==
    IF n = 0 \/ st.outPos \notin Int THEN st
    ELSE IF n = 1 THEN LH1Token(compressed, originalSize, st)
    ELSE LH1Rounds(compressed, originalSize,
                   LH1Rounds(compressed, originalSize, st, n \div 2), n - n \div 2)

\* part_002 295-322: n rounds of the while loop of decompressLH5, each a flag
\* byte and the for loop over its bits
RECURSIVE LH5Rounds(_, _, _, _)
LH5Rounds(compressed, originalSize, st, n) ==
    IF n = 0 \/ st.outPos \notin Int THEN st
    ELSE IF n = 1
    THEN LET flag == compressed[st.inPos + 1]
             after == LH5Bits(compressed, originalSize, flag, 0,
                              [st EXCEPT !.inPos = st.inPos + 1])
         IN  [after EXCEPT !.flag = flag, !.bit = 8, !.inFor = FALSE]
    ELSE LH5Rounds(compressed, originalSize,
                   LH5Rounds(compressed, originalSize, st, n \div 2), n - n \div 2)

\* the long streams, for an output that passes the end of the window; the
\* routine is taken up after the rounds that bring it near the window's end:
\* the first literal and the matches of the 4KB routine, or all flag bytes but
\* the last of the 8KB routine
LongLzssInput ==
    /\ lzTokens = <<>>
    /\ lzSize = (IF lzMethod = "lh1" THEN 4096 ELSE windowSize) + 8
    /\ lzCompressed = IF lzMethod = "lh1" THEN LH1LongStream ELSE LH5LongStream
    /\ lzState = IF lzMethod = "lh1"
                 THEN LH1Rounds(lzCompressed, lzSize, LzssStart("lh1", lzSize),
                                1 + LH1LongMatches)
                 ELSE LH5Rounds(lzCompressed, lzSize, LzssStart("lh5", lzSize),
                                LH5LongGroups)

\* part_002 228-234 and 287-292: the routine is entered, or is under way on
\* one of the long streams
InitLzssSteps ==
    /\ lzMethod \in {"lh1", "lh5"}
    /\ pc = lzMethod
    /\ ShortLzssInput \/ LongLzssInput
    /\ lzOutput = <<>>
    /\ crcInput = <<>> /\ crcValue = 0
    /\ timestamp = NoDate /\ dosTime = NoDos /\ decodedDate = NoDate
    /\ createFiles = <<>> /\ fileIdx = 0 /\ output = <<>> /\ archive = <<>>
    /\ data = <<>> /\ offset = 0 /\ files = <<>> /\ warnings = <<>>
    /\ crafted = <<>> /\ tampered = <<>> /\ earlier = <<>>

\* part_002 256 and 295: outPos < originalSize && inPos < compressed.length
WhileCondition ==
    lzState.outPos < lzSize /\ lzState.inPos < Len(lzCompressed)

\* part_002 256-275: one round of the while loop of decompressLH1
LH1Round ==
    /\ pc = "lh1"
    /\ WhileCondition
    /\ lzState' = LH1Token(lzCompressed, lzSize, lzState)
    /\ UNCHANGED << pc, lzMethod, lzTokens, lzCompressed, lzSize, lzOutput, archive,
                    encoderVars, decoderVars, harnessVars, dateVars, crcVars >>

\* part_002 296: the flag byte is read and the for loop begins
LH5ReadFlag ==
    /\ pc = "lh5"
    /\ ~lzState.inFor
    /\ WhileCondition
    /\ lzState' = [lzState EXCEPT !.flag = lzCompressed[lzState.inPos + 1],
                                  !.inPos = lzState.inPos + 1,
                                  !.bit = 0, !.inFor = TRUE]
    /\ UNCHANGED << pc, lzMethod, lzTokens, lzCompressed, lzSize, lzOutput, archive,
                    encoderVars, decoderVars, harnessVars, dateVars, crcVars >>

\* part_002 298: bit < 8 && outPos < originalSize && inPos < compressed.length
ForCondition == lzState.bit < 8 /\ WhileCondition

\* part_002 298-321: one round of the for loop
LH5Round ==
    /\ pc = "lh5"
    /\ lzState.inFor
    /\ ForCondition
    /\ lzState' = LH5Token(lzCompressed, lzSize, lzState)
    /\ UNCHANGED << pc, lzMethod, lzTokens, lzCompressed, lzSize, lzOutput,
                    archive, encoderVars, decoderVars, harnessVars, dateVars, crcVars >>

\* part_002 298: the condition of the for loop fails
LH5ForEnd ==
    /\ pc = "lh5"
    /\ lzState.inFor
    /\ ~ForCondition
    /\ lzState' = [lzState EXCEPT !.inFor = FALSE]
    /\ UNCHANGED << pc, lzMethod, lzTokens, lzCompressed, lzSize, lzOutput,
                    archive, encoderVars, decoderVars, harnessVars, dateVars, crcVars >>

\* part_002 277 and 324: the while loop is over and output is returned
LzssReturn ==
    /\ pc \in {"lh1", "lh5"}
    /\ pc = "lh5" => ~lzState.inFor
    /\ ~WhileCondition
    /\ lzOutput' = lzState.output
    /\ pc' = "lzssDone"
    /\ UNCHANGED << lzMethod, lzTokens, lzCompressed, lzSize, lzState, archive,
                    encoderVars, decoderVars, harnessVars, dateVars, crcVars >>

NextLzssSteps ==
    \/ LH1Round
    \/ LH5ReadFlag
    \/ LH5Round
    \/ LH5ForEnd
    \/ LzssReturn

SpecLzssSteps == InitLzssSteps /\ [][NextLzssSteps]_vars

\* the rounds end where the routines taken whole end
StepsAgreeWithWhole ==
    pc = "lzssDone" =>
        lzOutput = IF lzMethod = "lh1" THEN decompressLH1(lzCompressed, lzSize)
                   ELSE decompressLH5(lzCompressed, lzSize)

\* The copy of a match of the 8KB-window routine as the format describes it: n
\* bytes from window index from onwards, each written to the output and to the
\* window before the next is read; r is [out, win, n, w], the output, the
\* window, the bytes emitted and the window write index.
RECURSIVE ReferenceCopy8K(_, _, _, _)
ReferenceCopy8K(r, from, n, size) ==
    IF n = 0 \/ r.n >= size THEN r
    ELSE LET byte == WindowRead(r.win, from % 8192)
         IN  ReferenceCopy8K([out |-> [r.out EXCEPT ![r.n + 1] = byte],
                              win |-> (r.w :> byte) @@ r.win,
                              n |-> r.n + 1,
                              w |-> (r.w + 1) % 8192],
                             from + 1, n - 1, size)

\* the output, window, bytes emitted and write index of a state
Emitted8K(st) == [out |-> st.output, win |-> st.window, n |-> st.outPos, w |-> st.windowPos]

\* C21: in the 8KB-window routine a flag byte governs up to 8 tokens, taken
\* from its bits least significant first: a set bit copies one input byte to the
\* output and the window; a clear bit reads b1 and b2, forms offset =
\* ((b2 & 0xF0) << 4) | b1 and length = (b2 & 0x0F) + 3, and copies that many
\* bytes starting at (windowPos - offset) mod 8192 and moving forward, each
\* written to the output and the window before the next one is read.
C21_FlagByteTokens ==
    [][/\ (pc = "lh5" /\ ~lzState.inFor /\ WhileCondition) =>
            /\ lzState'.flag = lzCompressed[lzState.inPos + 1]
            /\ lzState'.inPos = lzState.inPos + 1
            /\ lzState'.bit = 0
            /\ Emitted8K(lzState') = Emitted8K(lzState)
       /\ (pc = "lh5" /\ lzState.inFor /\ ForCondition) =>
         LET st == lzState
             tokenBit == (st.flag \div 2 ^ st.bit) % 2
             b1 == lzCompressed[st.inPos + 1]
             b2 == lzCompressed[st.inPos + 2]
             offsetValue == 256 * (b2 \div 16) + b1
             length == (b2 % 16) + 3
         IN  /\ st.bit \in 0 .. 7
             /\ tokenBit = 1 =>
                   /\ Emitted8K(lzState') =
                        [out |-> [st.output EXCEPT ![st.outPos + 1] = b1],
                         win |-> (st.windowPos :> b1) @@ st.window,
                         n |-> st.outPos + 1,
                         w |-> (st.windowPos + 1) % 8192]
                   /\ lzState'.inPos = st.inPos + 1
                   /\ lzState'.bit = st.bit + 1
             /\ (tokenBit = 0 /\ st.inPos + 2 <= Len(lzCompressed)) =>
                   /\ Emitted8K(lzState') =
                        ReferenceCopy8K(Emitted8K(st), st.windowPos - offsetValue,
                                        length, lzSize)
                   /\ lzState'.inPos = st.inPos + 2
                   /\ lzState'.bit = st.bit + 1
             /\ (tokenBit = 0 /\ st.inPos + 2 > Len(lzCompressed)) =>
                   Emitted8K(lzState') = Emitted8K(st)]_vars

\* a literal and then a match of distance 2 and length 3 that runs into the
\* bytes it writes: the output is a, b, a, b, a
C21_Witness ==
    /\ pc = "lzssDone"
    /\ lzMethod = "lh5"
    /\ lzTokens = << LiteralToken(97), LiteralToken(98), MatchToken(2, 0) >>
    /\ lzOutput = << 97, 98, 97, 98, 97 >>

\* bit k (from 0) of a buffer read as a bit stream, the least significant bit
\* of each byte first; 0 past the end
StreamBit(bytes, k) ==
    IF k \div 8 < Len(bytes) THEN (bytes[(k \div 8) + 1] \div 2 ^ (k % 8)) % 2 ELSE 0

\* the value of the eight stream bits from bit k, the first its bit 0
StreamByte(bytes, k) ==
    StreamBit(bytes, k) + 2 * StreamBit(bytes, k + 1) + 4 * StreamBit(bytes, k + 2)
    + 8 * StreamBit(bytes, k + 3) + 16 * StreamBit(bytes, k + 4)
    + 32 * StreamBit(bytes, k + 5) + 64 * StreamBit(bytes, k + 6)
    + 128 * StreamBit(bytes, k + 7)

\* the bits of the stream the 4KB-window routine has consumed
BitsConsumed(st) == 8 * st.inPos - st.bitCount

\* C22: the 4KB-window routine consumes the compressed bytes as a bit stream,
\* the least significant bit of each byte first and all 8 bits of a byte
\* before the next byte is pulled; a token whose flag bit is 1 emits the byte
\* formed from the next 8 bits, the first read its bit 0, and stores it at the
\* dictionary write position, which then advances modulo 4096.
C22_BitStreamLiterals ==
    [][(pc = "lh1" /\ WhileCondition) =>
         LET st == lzState
             at == BitsConsumed(st)
             byte == StreamByte(lzCompressed, at + 1)
             available == 8 * Len(lzCompressed)
         IN  /\ st.bitCount \in 0 .. 7
             /\ StreamBit(lzCompressed, at) = 1 =>
                   /\ BitsConsumed(lzState') = Min(at + 9, available)
                   /\ lzState'.output = [st.output EXCEPT ![st.outPos + 1] = byte]
                   /\ lzState'.outPos = st.outPos + 1
                   /\ lzState'.dictionary = (st.dictPos :> byte) @@ st.dictionary
                   /\ lzState'.dictPos = (st.dictPos + 1) % 4096
             /\ StreamBit(lzCompressed, at) = 0 =>
                   BitsConsumed(lzState') = Min(at + 17, available)]_vars

\* in the long stream the literal 98 was stored at dictionary index 4095 and
\* the next one at index 0
C22_Witness ==
    /\ pc = "lh1"
    /\ lzCompressed = LH1LongStream
    /\ lzState.outPos = 4097
    /\ lzState.dictPos = 1
    /\ lzState.output[4097] = 98
    /\ lzState.dictionary[4095] = 98
    /\ lzState.dictionary[0] = 98

\* C23: dateToDosTime clamps the year to 1980..2107, and for every calendar
\* timestamp the packed date and the packed time each fit in 16 bits with
\* fields that do not overlap: year - 1980 in 7 bits, month in 4 and day in 5;
\* hour in 5, minute in 6 and second / 2 in 5.
C23_PackedFieldsFit ==
    pc \in {"packed", "unpacked"} =>
        LET year == IF timestamp.year < 1980 THEN 1980
                    ELSE IF timestamp.year > 2107 THEN 2107 ELSE timestamp.year
        IN  /\ dosTime.date \in 0 .. 65535
            /\ dosTime.time \in 0 .. 65535
            /\ dosTime.date \div 512 = year - 1980
            /\ year - 1980 \in 0 .. 127
            /\ (dosTime.date \div 32) % 16 = timestamp.month + 1
            /\ timestamp.month + 1 \in 0 .. 15
            /\ dosTime.date % 32 = timestamp.day
            /\ dosTime.time \div 2048 = timestamp.hour
            /\ timestamp.hour \in 0 .. 31
            /\ (dosTime.time \div 32) % 64 = timestamp.minute
            /\ dosTime.time % 32 = timestamp.second \div 2

\* the last second of 2108 was packed with its year held at 2107: every field
\* but the second at the top of its calendar range
C23_Witness ==
    /\ pc = "packed"
    /\ timestamp = [year |-> 2108, month |-> 11, day |-> 31, hour |-> 23,
                    minute |-> 59, second |-> 59]
    /\ dosTime.date = 127 * 512 + 12 * 32 + 31
    /\ dosTime.time = 23 * 2048 + 59 * 32 + 29

\* What is left for a routine in state st to do: for the 4KB routine the
\* output bytes still to produce; for the 8KB routine the input bytes still to
\* read, ten for each, and the bits of the flag byte still to look at.
RemainingIn(st) ==
    IF pc = "lh1" THEN lzSize - st.outPos
    ELSE IF pc = "lh5"
    THEN 10 * (Len(lzCompressed) - st.inPos) + (IF st.inFor THEN 9 - st.bit ELSE 0)
    ELSE 0

Remaining == RemainingIn(lzState)

\* the round the routine is about to take leaves less to do, never less than
\* nothing
RoundLeavesLess ==
    /\ (pc = "lh1" /\ WhileCondition) =>
          RemainingIn(LH1Token(lzCompressed, lzSize, lzState)) \in 0 .. Remaining - 1
    /\ (pc = "lh5" /\ lzState.inFor /\ ForCondition) =>
          RemainingIn(LH5Token(lzCompressed, lzSize, lzState)) \in 0 .. Remaining - 1

\* the buffer returned has originalSize bytes: those produced, then zeros
ProducedThenZeros ==
    /\ Len(lzOutput) = lzSize
    /\ lzState.outPos \in 0 .. lzSize
    /\ \A i \in lzState.outPos + 1 .. lzSize : lzOutput[i] = 0

\* C24: both LZSS routines end for every compressed input and every
\* originalSize >= 0, without raising: until a routine returns every round
\* of its loops leaves less to do, never less than nothing;
\* when the input runs out before originalSize bytes are produced they return
\* a buffer of exactly originalSize bytes: the bytes produced so far, then
\* zero bytes.
C24_LzssTerminates ==
    /\ [](RoundLeavesLess /\ (pc = "lzssDone" => ProducedThenZeros))
    /\ [][Remaining' \in 0 .. Remaining - 1 \/ pc' = "lzssDone"]_vars

\* the input of the 8KB-window routine ran out inside a match, two bytes
\* short of the output asked for, after one byte was produced
C24_Witness ==
    /\ pc = "lzssDone"
    /\ lzMethod = "lh5"
    /\ lzTokens = << LiteralToken(97), MatchToken(1, 0) >>
    /\ Len(lzCompressed) = 3
    /\ lzSize = 6
    /\ lzOutput = << 97, 0, 0, 0, 0, 0 >>

\* the last bytes emitted, at most as many as the window holds, are in the
\* window at their output index modulo its size
WindowHoldsOutput(out, window, outPos, size) ==
    \A k \in Max(0, outPos - size) .. outPos - 1 :
        k % size \in DOMAIN window /\ window[k % size] = out[k + 1]

\* C28: in both LZSS routines the window write index is the number of bytes
\* emitted so far modulo the window size, 4096 in the 4KB routine and 8192 in
\* the 8KB routine, and every byte emitted is written to the window at that
\* index.
C28_WindowIndexFollowsOutput ==
    /\ pc = "lh1" =>
          /\ lzState.dictPos = lzState.outPos % 4096
          /\ WindowHoldsOutput(lzState.output, lzState.dictionary, lzState.outPos, 4096)
    /\ pc = "lh5" =>
          /\ lzState.windowPos = lzState.outPos % 8192
          /\ WindowHoldsOutput(lzState.output, lzState.window, lzState.outPos, 8192)

\* the 8KB routine has emitted eight bytes more than its window holds
C28_Witness ==
    /\ pc = "lh5"
    /\ lzState.outPos = 8192 + 8
    /\ lzState.windowPos = 8
    /\ lzState.window[7] = 97
    /\ lzState.output[8200] = 97

\* C29: neither LZSS routine reads the compressed buffer at an index >= its
\* length or writes the output at an index >= originalSize: inPos <=
\* compressed.length and outPos <= originalSize hold at every step, also when a
\* match of the 8KB routine has fewer than two bytes left and when the bit
\* reader of the 4KB routine runs dry inside a token.  Both indices only grow,
\* so every read and write of a round is below the values the round ends with.
C29_IndicesInRange ==
    /\ [](pc \in {"lh1", "lh5", "lzssDone"} =>
            (/\ lzState.inPos \in 0 .. Len(lzCompressed)
             /\ lzState.outPos \in 0 .. lzSize
             /\ Len(lzState.output) = lzSize))
    /\ [][(pc = "lh1" \/ pc = "lh5") =>
            (/\ lzState'.inPos >= lzState.inPos
             /\ lzState'.outPos >= lzState.outPos)]_vars

\* the bit reader of the 4KB routine ran dry inside the literal 98, whose
\* last bit is in a byte that is missing
C29_Witness ==
    /\ pc = "lzssDone"
    /\ lzMethod = "lh1"
    /\ lzTokens = << LiteralToken(98) >>
    /\ lzCompressed = << 197 >>
    /\ lzSize = 3
    /\ lzState.inPos = 1
    /\ lzState.bitCount = 0
    /\ lzOutput = << 98, 0, 0 >>

(***************************************************************************)
(* The cursor of the reader over the rounds of extractAll's loop.          *)
(***************************************************************************)

\* C25: every readHeader call that returns an entry leaves the cursor strictly
\* beyond the position where that header started, so extractAll never parses
\* the same header twice and its loop ends with a finite list of entries.
C25_EntryMovesCursorForward ==
    [][(pc = "extract" /\ pc' = "extract") => JsGreater(offset', offset)]_vars

\* C26: while extractAll runs the cursor stays within 0 .. data.length and
\* never decreases, whatever the input holds.
C26_CursorInBoundsMonotone ==
    /\ [](pc \in {"extract", "returned"} => offset \in 0 .. Len(data))
    /\ [][(pc = "extract") => (offset' >= offset)]_vars

(***************************************************************************)
(* The header-size byte create writes.                                     *)
(***************************************************************************)

\* C27: for every filename given to create, the header-size byte of the
\* entry's header lies in 1 .. 128 and is 22 plus the stored length of the
\* filename, without wrapping around.
C27_SizeByteInRange ==
    (pc = "created" /\ tampered = <<>>) =>
        \A k \in 0 .. Len(createFiles) - 1 :
            LET sizeByte == archive[HeaderStart(output, k) + 1]
            IN  /\ sizeByte \in 1 .. 128
                /\ sizeByte = 22 + StoredLength(createFiles[k + 1].filename)

(***************************************************************************)
(* create called more than once on one LZHEncoder.                         *)
(***************************************************************************)

\* most calls of create on one instance
MaxCalls == 2

\* the lists given to the calls; every file carries its own timestamp
ReuseLists == UNION {ListsOfLength(SmallFiles, n) : n \in 0 .. 2}

CreateFirst == CreateFrom(ReuseLists)

\* mutant: the chunks of the call before stay in this.output
CreateAgain_KeepsOutput ==
    /\ pc = "created"
    /\ Len(earlier) + 1 < MaxCalls
    /\ \E fileList \in ReuseLists : createFiles' = fileList
    /\ fileIdx' = 0
    /\ output' = output
    /\ earlier' = Append(earlier, archive)
    /\ pc' = "create"
    /\ UNCHANGED << archive, crafted, tampered, decoderVars, dateVars, crcVars, lzssVars >>

\* encoder.ts 18-19: create(files) is called on the instance whose last call
\* has returned; this.output = []
CreateAgain ==
    /\ pc = "created"
    /\ Len(earlier) + 1 < MaxCalls
    /\ \E fileList \in ReuseLists : createFiles' = fileList
    /\ fileIdx' = 0
    /\ output' = <<>>
    /\ earlier' = Append(earlier, archive)
    /\ pc' = "create"
    /\ UNCHANGED << archive, crafted, tampered, decoderVars, dateVars, crcVars, lzssVars >>

NextReuse ==
    \/ CreateFirst
    \/ CreateAgain
    \/ WriteFileHeader
    \/ CreateReturn

SpecReuse == Init /\ [][NextReuse]_vars

\* C30: each call of create on one LZHEncoder returns exactly the bytes a
\* fresh instance returns for the same files with explicit timestamps, and
\* the chunks it joined are those of this call only.
C30_CreateReusable ==
    (pc = "created") =>
        \A now \in NowSamples :
            /\ archive = Create(createFiles, now)
            /\ output = WrittenChunks(createFiles, 0, now) \o << EndMarker >>

\* the second call on an instance has returned, and its result differs from
\* that of the first call, which wrote an entry
C30_Witness ==
    /\ pc = "created"
    /\ Len(earlier) = 1
    /\ Len(earlier[1]) > 1
    /\ Len(createFiles) = 1
    /\ archive # earlier[1]
    /\ archive = Create(createFiles, StampSample)

====
